---- MODULE Spec2Model ----
(***************************************************************************)
(* Per-axis grid generation of tidy3d (components/grid/grid_spec.py).      *)
(*                                                                         *)
(* Coordinates and lengths are integers counted in ticks.  One tick is the *)
(* width by which _postprocess_unaligned_grid relaxes the domain bounds    *)
(* (one float32 step); cell widths are several ticks.  Arithmetic is exact;*)
(* the inputs are drawn so that every division the code performs is exact. *)
(* An optional value (None or a number) is a sequence of length 0 or 1.    *)
(***************************************************************************)
EXTENDS Integers, Sequences, FiniteSets, TLC

VARIABLES
    grid_type,        \* class of the per-axis strategy (GridSpec1d subclass)
    dl,               \* UniformGrid.dl / QuasiUniformGrid.dl
    coords,           \* CustomGridBoundaries.coords (the stored array)
    custom_dl,        \* CustomGrid.dl
    custom_offset,    \* CustomGrid.custom_offset (optional)
    dl_min,           \* AbstractAutoGrid.dl_min (optional)
    max_scale,        \* AbstractAutoGrid.max_scale as <<numerator, denominator>>
    min_steps_per_wvl,       \* AutoGrid.min_steps_per_wvl
    min_steps_per_sim_size,  \* AutoGrid.min_steps_per_sim_size
    wavelength,       \* wavelength of make_coords
    periodic,         \* periodic of make_coords
    other_size,       \* structures[0].geometry.size on the two other axes
    other_symmetry,   \* symmetry on the two other axes
    structures,       \* structures[1:] of make_coords
    snapping_points,  \* snapping_points of make_coords
    center,           \* structures[0].geometry.center[axis]
    size,             \* structures[0].geometry.size[axis]
    symmetry,         \* symmetry[axis]
    num_pml_layers,   \* num_pml_layers of make_coords: <<minus, plus>>
    pc,               \* "start" before make_coords is called, "done" after
    error,            \* exception raised by make_coords, "none" if it returned
    initial,          \* value returned by _make_coords_initial
    folded,           \* bound_coords after the symmetry block of make_coords
    bound_coords,     \* value returned by make_coords
    mesher_error,     \* by how much the cells of the mesher overshoot the domain
    \* GridSpec.make_grid
    grid_xyz,         \* GridSpec.grid_x, grid_y, grid_z: the per-axis strategies
    gs_wavelength,    \* GridSpec.wavelength (optional)
    gs_override_structures,  \* dl of each of GridSpec.override_structures
    gs_snapping_points,      \* GridSpec.snapping_points
    layer_refinement_specs,  \* GridSpec.layer_refinement_specs
    mg_structures,    \* refractive index of each structure given to make_grid
    sources,          \* source_time.freq0 of each source given to make_grid
    mg_pc,            \* "start" before make_grid is called, then "wavelength", "done" or "raised"
    mg_error,         \* exception raised by make_grid, "none" otherwise
    mg_wavelength,    \* wavelength that make_grid hands to make_coords (optional)
    grids_1d,         \* the strategies on which make_grid calls make_coords
    mg_override_structures,  \* all_override_structures as make_grid appends it
    mg_snapping_points,      \* all_snapping_points as make_grid hands it to make_coords
    \* GridRefinement and LayerRefinementSpec
    refinement,       \* a GridRefinement
    ref_center,       \* center given to GridRefinement.override_structure
    grid_size_in_vacuum,  \* grid_size_in_vacuum of the refinement methods
    layer,            \* fields given to the constructor of LayerRefinementSpec
    lr_pc,            \* "new", then "valid" or "rejected" by the validators
    ref_structure,    \* result of GridRefinement.override_structure (optional)
    lr_snapping_points,      \* result of _snapping_points_along_axis (optional)
    lr_override_structures,  \* result of _override_structures_along_axis (optional)
    \* web monitor
    task_type,        \* taskType of the task on the server
    server_status,    \* status of the task on the server
    verbose,          \* verbose of monitor
    mon_pc,           \* position of monitor in its code
    mon_status,       \* status that get_status returned last, "unseen" before
    perc_done,        \* perc_done that get_run_info returned last (optional)
    \* HeatChargeSimulation
    hc_structures,    \* medium of each of structures
    hc_boundary_spec, \* condition of each of boundary_spec
    hc_sources,       \* type of each of sources
    hc_monitors,      \* type of each of monitors
    hc_call,          \* the call that validated last: "__init__" or "updated_copy"
    hc_pc,            \* "new", then "accepted" or "rejected" by the validators
    hc_error          \* exception raised by the construction, "none" otherwise

vars == <<grid_type, dl, coords, custom_dl, custom_offset, dl_min, max_scale,
          min_steps_per_wvl, min_steps_per_sim_size, wavelength, periodic,
          other_size, other_symmetry, structures, snapping_points,
          center, size, symmetry, num_pml_layers,
          pc, error, initial, folded, bound_coords, mesher_error,
          grid_xyz, gs_wavelength, gs_override_structures, layer_refinement_specs,
          mg_structures, sources,
          mg_pc, mg_error, mg_wavelength, grids_1d,
          gs_snapping_points, mg_override_structures, mg_snapping_points,
          refinement, ref_center, grid_size_in_vacuum, layer, lr_pc,
          ref_structure, lr_snapping_points, lr_override_structures,
          task_type, server_status, verbose, mon_pc, mon_status, perc_done,
          hc_structures, hc_boundary_spec, hc_sources, hc_monitors, hc_call, hc_pc,
          hc_error>>

make_coords_vars ==
    <<grid_type, dl, coords, custom_dl, custom_offset, dl_min, max_scale,
      min_steps_per_wvl, min_steps_per_sim_size, wavelength, periodic,
      other_size, other_symmetry, structures, snapping_points,
      center, size, symmetry, num_pml_layers,
      pc, error, initial, folded, bound_coords, mesher_error>>

make_grid_vars ==
    <<grid_xyz, gs_wavelength, gs_override_structures, layer_refinement_specs,
          mg_structures, sources,
      mg_pc, mg_error, mg_wavelength, grids_1d,
      gs_snapping_points, mg_override_structures, mg_snapping_points>>

refinement_vars ==
    <<refinement, ref_center, grid_size_in_vacuum, layer, lr_pc,
      ref_structure, lr_snapping_points, lr_override_structures>>

monitor_vars == <<task_type, server_status, verbose, mon_pc, mon_status, perc_done>>

heat_charge_vars ==
    <<hc_structures, hc_boundary_spec, hc_sources, hc_monitors, hc_call, hc_pc,
          hc_error>>

----------------------------------------------------------------------------
(* Bounds of the model *)

MaxPml == 2
MaxCustomCells == 3

(* Tolerances of the code, in ticks *)

\* np.nextafter(..., dtype=np.float32): the bounds are relaxed by one float32 step
Relax == 1
\* np.isclose: a wider window than the float32 step, narrower than any cell
CloseTol == 2
\* the narrowest cell the mesher makes, in ticks
MinCell == 2

(* Input sets *)

Centers == {0, 5}
Sizes == {0, 8, 12, 24}
Symmetries == {-1, 0, 1}
PmlLayers == {<<0, 0>>, <<1, 1>>, <<MaxPml, 1>>, <<0, MaxPml>>}
UniformDls == {3, 4, 5, 6, 8, 12, 30}
CustomSteps == {4, 6}
CoordStarts == {-14, -10, -8, -6, -4, -1, 0, 1, 2, 5, 6, 13}
CustomOffsets == {-20, -12, -6, -5, -4, 0, 1, 5, 6, 13}
AutoSizes == {0, 8, 16}
QuasiDls == {4, 6}
QuasiDlMins == {<<>>, <<3>>}
AutoPmlLayers == {<<0, 0>>, <<MaxPml, 1>>}
\* the cells of the mesher add up to the domain, or overshoot it by less or by
\* more than the tolerance of np.isclose
MesherErrors == {0, CloseTol - 1, CloseTol + 1}
\* AutoGrid fields, the wavelength and the two other axes of the domain
AutoSettings ==
    {[dl_min |-> <<2>>, max_scale |-> <<3, 2>>, wavelength |-> 24,
      min_steps_per_sim_size |-> 1, other_size |-> <<0, 8>>, other_symmetry |-> <<0, 0>>],
     [dl_min |-> <<2>>, max_scale |-> <<3, 2>>, wavelength |-> 36,
      min_steps_per_sim_size |-> 2, other_size |-> <<24, 24>>, other_symmetry |-> <<1, 0>>],
     [dl_min |-> <<3>>, max_scale |-> <<5, 3>>, wavelength |-> 36,
      min_steps_per_sim_size |-> 4, other_size |-> <<0, 8>>, other_symmetry |-> <<0, 1>>],
     [dl_min |-> <<3>>, max_scale |-> <<3, 2>>, wavelength |-> 24,
      min_steps_per_sim_size |-> 2, other_size |-> <<0, 0>>, other_symmetry |-> <<0, 0>>],
     [dl_min |-> <<2>>, max_scale |-> <<5, 3>>, wavelength |-> 24,
      min_steps_per_sim_size |-> 1, other_size |-> <<24, 24>>, other_symmetry |-> <<0, 0>>],
     [dl_min |-> <<2>>, max_scale |-> <<3, 2>>, wavelength |-> 36,
      min_steps_per_sim_size |-> 2, other_size |-> <<16, 0>>, other_symmetry |-> <<1, 0>>]}

StructureA == [type |-> "Structure", rmin |-> -2, rmax |-> 3, step |-> <<2>>,
               drop_outside_sim |-> TRUE, overlaps_other |-> TRUE]
StructureB == [type |-> "MeshOverrideStructure", rmin |-> 2, rmax |-> 40, step |-> <<3>>,
               drop_outside_sim |-> FALSE, overlaps_other |-> FALSE]
StructureC == [type |-> "MeshOverrideStructure", rmin |-> -3, rmax |-> 1, step |-> <<>>,
               drop_outside_sim |-> TRUE, overlaps_other |-> TRUE]
StructureD == [type |-> "Structure", rmin |-> -2, rmax |-> 3, step |-> <<2>>,
               drop_outside_sim |-> TRUE, overlaps_other |-> FALSE]
StructureE == [type |-> "MeshOverrideStructure", rmin |-> -7, rmax |-> -1, step |-> <<3>>,
               drop_outside_sim |-> FALSE, overlaps_other |-> FALSE]
StructureLists == {<<>>, <<StructureA>>, <<StructureB>>, <<StructureA, StructureC>>,
                   <<StructureD, StructureE>>}

\* a point whose coordinate along the meshed axis is x
Point(x) == <<<<x>>, <<0>>, <<>>>>
SnapCoords == {-9, -3, -1, 1, 2, 6, 7, 30}
SnapPoints == {Point(x) : x \in SnapCoords}
              \cup {<<<<>>, <<0>>, <<0>>>>, <<<<5>>, <<100>>, <<-100>>>>}
SnapLists == {<<>>} \cup {<<q>> : q \in SnapPoints}
             \cup {<<Point(1), Point(2)>>, <<Point(2), Point(1)>>, <<Point(6), Point(7)>>,
                   <<Point(1), Point(-3)>>, <<Point(6), Point(30)>>}

----------------------------------------------------------------------------
(* numpy helpers *)

Abs(x) == IF x < 0 THEN -x ELSE x

CeilDiv(a, b) == (a + b - 1) \div b

Max2(a, b) == IF a >= b THEN a ELSE b

Min2(a, b) == IF a <= b THEN a ELSE b

\* a numpy array given by its elements
Array(f) == <<>> \o f

Reverse(s) == Array([i \in 1..Len(s) |-> s[Len(s) + 1 - i]])

Shift(s, d) == Array([i \in 1..Len(s) |-> s[i] + d])

\* np.argmin(np.abs(c - s)): the first index of the smallest distance
ArgMinDist(c, s) ==
    CHOOSE i \in 1..Len(s) :
        /\ \A j \in 1..Len(s) : Abs(c - s[i]) <= Abs(c - s[j])
        /\ \A j \in 1..(i - 1) : Abs(c - s[j]) > Abs(c - s[i])

StrictlyIncreasing(s) == \A i \in 1..(Len(s) - 1) : s[i] < s[i + 1]

----------------------------------------------------------------------------
(* GridSpec1d *)

\* the symmetry block with "bound_coords > center" for ">="
FoldCoords_strict(c, bc) ==
    LET shifted == Shift(bc, c - bc[ArgMinDist(c, bc)])
        kept == SelectSeq(shifted, LAMBDA x : x > c)
    IN  Reverse([i \in 1..(Len(kept) - 1) |-> 2 * c - kept[i + 1]]) \o kept

\* the symmetry block without the offset to the centre
FoldCoords_unshifted(c, bc) ==
    LET kept == SelectSeq(bc, LAMBDA x : x >= c)
    IN  Reverse([i \in 1..(Len(kept) - 1) |-> 2 * c - kept[i + 1]]) \o kept

\* the symmetry block of make_coords
FoldCoords(c, bc) ==
    LET shifted == Shift(bc, c - bc[ArgMinDist(c, bc)])
        kept == SelectSeq(shifted, LAMBDA x : x >= c)
    IN  Reverse([i \in 1..(Len(kept) - 1) |-> 2 * c - kept[i + 1]]) \o kept

\* _add_pml_to_bounds with the layers below the domain in descending order
_add_pml_to_bounds_unordered(num_layers, bounds) ==
    IF Len(bounds) < 2 THEN bounds
    ELSE LET first_step == bounds[2] - bounds[1]
             last_step == bounds[Len(bounds)] - bounds[Len(bounds) - 1]
             add_left == [i \in 1..num_layers[1] |-> bounds[1] - first_step * i]
             add_right == [i \in 1..num_layers[2] |->
                             bounds[Len(bounds)] + last_step * i]
         IN  add_left \o bounds \o add_right

\* _add_pml_to_bounds with the two layer counts exchanged
_add_pml_to_bounds_swapped(num_layers, bounds) ==
    IF Len(bounds) < 2 THEN bounds
    ELSE LET first_step == bounds[2] - bounds[1]
             last_step == bounds[Len(bounds)] - bounds[Len(bounds) - 1]
             add_left == [i \in 1..num_layers[2] |->
                             bounds[1] - first_step * (num_layers[2] + 1 - i)]
             add_right == [i \in 1..num_layers[1] |->
                             bounds[Len(bounds)] + last_step * i]
         IN  add_left \o bounds \o add_right

_add_pml_to_bounds(num_layers, bounds) ==
    IF Len(bounds) < 2 THEN bounds
    ELSE LET first_step == bounds[2] - bounds[1]
             last_step == bounds[Len(bounds)] - bounds[Len(bounds) - 1]
             add_left == [i \in 1..num_layers[1] |->
                             bounds[1] - first_step * (num_layers[1] + 1 - i)]
             add_right == [i \in 1..num_layers[2] |->
                             bounds[Len(bounds)] + last_step * i]
         IN  add_left \o bounds \o add_right

\* make_coords after _make_coords_initial has returned init = [err, val]
FinishCoords(init, c, sym, npml) ==
    IF init.err # "none"
    THEN [err |-> init.err, initial |-> <<>>, folded |-> <<>>, final |-> <<>>]
    ELSE IF sym # 0 /\ Len(init.val) = 0
    THEN [err |-> "ValueError", initial |-> init.val, folded |-> <<>>, final |-> <<>>]
    ELSE LET f == IF sym # 0 THEN FoldCoords(c, init.val) ELSE init.val
         IN  [err |-> "none", initial |-> init.val, folded |-> f,
              final |-> _add_pml_to_bounds(npml, f)]

----------------------------------------------------------------------------
(* UniformGrid *)

\* the number of cells rounded down instead of up
UniformNumCells_floor(sz, d) == Max2(sz \div d, 1)

UniformNumCells(sz, d) == Max2(CeilDiv(sz, d), 1)

UniformInitial(c, sz, d) ==
    LET num_cells == UniformNumCells(sz, d)
        dl_snapped == IF sz > 0 THEN sz \div num_cells ELSE d
    IN  [err |-> "none",
         val |-> Array([i \in 1..(num_cells + 1) |->
                           c - sz \div 2 + (i - 1) * dl_snapped]),
         view |-> <<>>]

----------------------------------------------------------------------------
(* CustomGridBoundaries and CustomGrid *)

\* np.append(0.0, np.cumsum(dl))
CumSum(steps) ==
    LET RECURSIVE Acc(_)
        Acc(k) == IF k = 0 THEN 0 ELSE Acc(k - 1) + steps[k]
    IN  Array([i \in 1..(Len(steps) + 1) |-> Acc(i - 1)])

IsClose(a, b) == Abs(a - b) <= CloseTol

\* np.searchsorted(bc, c, side="left") on a sorted array
SearchSortedLeft(bc, c) == Cardinality({i \in 1..Len(bc) : bc[i] < c})

\* np.searchsorted(bc, c, side="right") on a sorted array
SearchSortedRight(bc, c) == Cardinality({i \in 1..Len(bc) : bc[i] <= c})

\* the first while loop with ">" for ">="
RECURSIVE ExtendLeft_strict(_, _, _)
ExtendLeft_strict(bc, step_min, bound_min) ==
    IF bc[1] - step_min > bound_min
    THEN ExtendLeft_strict(<<bc[1] - step_min>> \o bc, step_min, bound_min)
    ELSE bc

\* the while loops that repeat the first and the last step
RECURSIVE ExtendLeft(_, _, _)
ExtendLeft(bc, step_min, bound_min) ==
    IF bc[1] - step_min >= bound_min
    THEN ExtendLeft(<<bc[1] - step_min>> \o bc, step_min, bound_min)
    ELSE bc

RECURSIVE ExtendRight(_, _, _)
ExtendRight(bc, step_max, bound_max) ==
    IF bc[Len(bc)] + step_max <= bound_max
    THEN ExtendRight(Append(bc, bc[Len(bc)] + step_max), step_max, bound_max)
    ELSE bc

\* Returns [err, val, view]: view is the 1-based index range of bc that val
\* aliases (a numpy basic slice), <<>> if val is a fresh array.
_postprocess_unaligned_grid(c, sz, machine_error_relaxation, bc) ==
    LET bound_min == c - sz \div 2 - Relax
        bound_max == c + sz \div 2 + Relax
        n == Len(bc)
    IN  IF bound_max < bc[1] \/ bound_min > bc[n]
        THEN [err |-> "SetupError", val |-> <<>>, view |-> <<>>]
        ELSE IF sz = 0
        THEN LET found == SearchSortedRight(bc, c)
                 ind == IF found >= n THEN n - 1 ELSE found
                 \* bc[ind - 1 : ind + 1] with Python's reading of a negative start
                 start == IF ind - 1 < 0 THEN n + (ind - 1) ELSE ind - 1
                 stop == IF ind + 1 > n THEN n ELSE ind + 1
             IN  IF start >= stop
                 THEN [err |-> "none", val |-> <<>>, view |-> <<>>]
                 ELSE [err |-> "none", val |-> SubSeq(bc, start + 1, stop),
                       view |-> <<start + 1, stop>>]
        ELSE LET clipped == SelectSeq(SelectSeq(bc, LAMBDA x : x <= bound_max),
                                      LAMBDA x : x >= bound_min)
             IN  IF Len(clipped) < 2
                 THEN [err |-> "IndexError", val |-> <<>>, view |-> <<>>]
                 ELSE LET step_min == clipped[2] - clipped[1]
                          step_max == clipped[Len(clipped)] - clipped[Len(clipped) - 1]
                          ext == ExtendRight(ExtendLeft(clipped, step_min, bound_min),
                                             step_max, bound_max)
                          left == IF machine_error_relaxation
                                     /\ IsClose(ext[1] - step_min, bound_min)
                                  THEN <<ext[1] - step_min>> \o ext ELSE ext
                          right == IF machine_error_relaxation
                                      /\ IsClose(left[Len(left)] + step_max, bound_max)
                                   THEN Append(left, left[Len(left)] + step_max) ELSE left
                      IN  [err |-> "none", val |-> right, view |-> <<>>]

CustomBoundariesInitial(c, sz, cs) ==
    _postprocess_unaligned_grid(c, sz, FALSE, cs)

\* bound_coords of CustomGrid._make_coords_initial before the postprocessing
CustomPlaced(c, dls, offset) ==
    LET raw == CumSum(dls)
    IN  IF offset = <<>>
        THEN Shift(raw, c - raw[Len(raw)] \div 2)
        ELSE Shift(raw, offset[1])

CustomInitial(c, sz, dls, offset) ==
    LET r == _postprocess_unaligned_grid(c, sz, offset # <<>>,
                                         CustomPlaced(c, dls, offset))
    IN  [err |-> r.err, val |-> r.val, view |-> <<>>]

\* self.coords after make_coords: "bound_coords += ..." writes through the slice
\* that _postprocess_unaligned_grid returned for a zero-size domain
CoordsAfter(cs, init, c, sym) ==
    IF init.err = "none" /\ sym # 0 /\ init.view # <<>>
    THEN LET d == c - init.val[ArgMinDist(c, init.val)]
         IN  Array([i \in 1..Len(cs) |->
                 IF i >= init.view[1] /\ i <= init.view[2] THEN cs[i] + d ELSE cs[i]])
    ELSE cs

----------------------------------------------------------------------------
(* AbstractAutoGrid, QuasiUniformGrid and AutoGrid.  The operators take g,   *)
(* the record of the strategy's fields and of the arguments of make_coords.  *)

_undefined_dl_min(g) == g.dl_min = <<>> \/ g.dl_min[1] = 0

Max3(s) == Max2(s[1], Max2(s[2], s[3]))

\* QuasiUniformGrid._dl_min and AutoGrid._dl_min
_dl_min(g) ==
    IF g.grid_type = "QuasiUniformGrid"
    THEN IF _undefined_dl_min(g) THEN g.dl \div 2 ELSE g.dl_min[1]
    ELSE IF _undefined_dl_min(g) THEN 0 ELSE g.dl_min[1]

\* QuasiUniformGrid._dl_max and AutoGrid._dl_max
_dl_max(g, sim_size) ==
    IF g.grid_type = "QuasiUniformGrid"
    THEN g.dl
    ELSE Max3(sim_size) \div g.min_steps_per_sim_size

_filtered_dl(g, d, sim_size) == Max2(Min2(d, _dl_max(g, sim_size)), _dl_min(g))

_vacuum_dl(g, sim_size) ==
    _filtered_dl(g, g.wavelength \div g.min_steps_per_wvl, sim_size)

\* QuasiUniformGrid._dl_collapsed_axis and AutoGrid._dl_collapsed_axis
_dl_collapsed_axis(g, sim_size) ==
    IF g.grid_type = "QuasiUniformGrid"
    THEN _filtered_dl(g, g.dl, sim_size)
    ELSE _vacuum_dl(g, sim_size)

\* sim_size and sim_cent of _make_coords_initial before and after the symmetry
\* loop; the meshed axis comes first
sim_size_full(g) == <<g.size, g.other_size[1], g.other_size[2]>>

all_symmetry(g) == <<g.symmetry, g.other_symmetry[1], g.other_symmetry[2]>>

sim_size_sym(g) ==
    Array([dim \in 1..3 |-> IF all_symmetry(g)[dim] # 0
                            THEN sim_size_full(g)[dim] \div 2
                            ELSE sim_size_full(g)[dim]])

sim_cent_sym(g) == IF g.symmetry # 0 THEN g.center + g.size \div 4 ELSE g.center

rmin_domain(g) == sim_cent_sym(g) - sim_size_sym(g)[1] \div 2

rmax_domain(g) == sim_cent_sym(g) + sim_size_sym(g)[1] \div 2

\* Box.intersects: the bounds overlap along the three axes
Intersects(g, st) ==
    st.overlaps_other /\ st.rmin <= rmax_domain(g) /\ rmin_domain(g) <= st.rmax

\* drop_structure with the test in 3D for every structure
drop_structure_3d(g, st) == ~Intersects(g, st)

drop_structure(g, st) ==
    IF st.type = "MeshOverrideStructure" /\ ~st.drop_outside_sim
    THEN st.rmin > rmax_domain(g) \/ rmin_domain(g) > st.rmax
    ELSE ~Intersects(g, st)

\* the step the mesher reads for the background medium (mesher.structure_step)
BackgroundStep(g) == g.wavelength \div g.min_steps_per_wvl

struct_list(g) ==
    <<[type |-> "Structure", rmin |-> rmin_domain(g), rmax |-> rmax_domain(g),
       step |-> <<BackgroundStep(g)>>, drop_outside_sim |-> TRUE,
       overlaps_other |-> TRUE]>>
    \o SelectSeq(g.structures, LAMBDA st : ~drop_structure(g, st))

\* QuasiUniformGrid._preprocessed_structures and AutoGrid._preprocessed_structures
_preprocessed_structures(g, list) ==
    IF g.grid_type = "QuasiUniformGrid"
    THEN Array([i \in 1..Len(list) |->
            [list[i] EXCEPT
                !.step = IF list[i].type = "MeshOverrideStructure" /\ list[i].step = <<>>
                         THEN <<>> ELSE <<g.dl>>,
                !.type = "MeshOverrideStructure"]])
    ELSE list

----------------------------------------------------------------------------
(* The mesher (GradedMesher), from its contract: parse_structures,           *)
(* insert_snapping_points and make_grid_multiple_intervals.                  *)

RECURSIVE SortedSeq(_)
SortedSeq(S) ==
    IF S = {} THEN <<>>
    ELSE LET m == CHOOSE x \in S : \A y \in S : x <= y
         IN  <<m>> \o SortedSeq(S \ {m})

\* a boundary is kept when it lies strictly inside the domain and farther
\* than dlmin from every boundary kept before it
RECURSIVE KeepBounds(_, _, _, _, _, _)
KeepBounds(cands, k, acc, lo, hi, dlmin) ==
    IF k > Len(cands) THEN acc
    ELSE LET x == cands[k]
             keep == x > lo /\ x < hi /\ \A b \in acc : Abs(x - b) > dlmin
         IN  KeepBounds(cands, k + 1, IF keep THEN acc \cup {x} ELSE acc, lo, hi, dlmin)

RECURSIVE StructureBounds(_, _)
StructureBounds(list, k) ==
    IF k > Len(list) THEN <<>>
    ELSE (IF list[k].step = <<>> THEN <<>> ELSE <<list[k].rmin, list[k].rmax>>)
         \o StructureBounds(list, k + 1)

\* the step of the last structure of the list that covers the interval [a, b],
\* clamped between dlmin and dlmax
IntervalMaxDl(list, a, b, dlmin, dlmax) ==
    LET covering == {k \in 1..Len(list) :
                        list[k].step # <<>> /\ list[k].rmin <= a /\ b <= list[k].rmax}
        last == CHOOSE k \in covering : \A j \in covering : j <= k
    IN  Max2(Min2(list[last].step[1], dlmax), dlmin)

\* Returns [coords, max_dl, snapped]: the interval boundaries, the largest step
\* allowed in each interval, and the boundaries that are snapping points.
ParseStructures(list, dlmin, dlmax) ==
    LET lo == list[1].rmin
        hi == list[1].rmax
    IN  IF lo = hi
        THEN [coords |-> <<lo>>, max_dl |-> <<>>, snapped |-> {}]
        ELSE LET cs == SortedSeq(KeepBounds(StructureBounds(list, 2), 1, {lo, hi},
                                                 lo, hi, dlmin))
             IN  [coords |-> cs,
                  max_dl |-> Array([i \in 1..(Len(cs) - 1) |->
                                 IntervalMaxDl(list, cs[i], cs[i + 1], dlmin, dlmax)]),
                  snapped |-> {}]

\* index of the interior boundary nearest to x among those within dlmin of x,
\* 0 if there is none
NearInterior(cs, x, dlmin) ==
    LET near == {i \in 2..(Len(cs) - 1) : Abs(x - cs[i]) <= dlmin}
    IN  IF near = {} THEN 0
        ELSE CHOOSE i \in near :
                /\ \A j \in near : Abs(x - cs[i]) <= Abs(x - cs[j])
                /\ \A j \in near : j < i => Abs(x - cs[j]) > Abs(x - cs[i])

InsertSnappingPoint(dlmin, iv, point) ==
    LET cs == iv.coords
        n == Len(cs)
    IN  IF point[1] = <<>> \/ n < 2 THEN iv
        ELSE LET x == point[1][1]
                 k == NearInterior(cs, x, dlmin)
             IN  IF x - cs[1] <= dlmin \/ cs[n] - x <= dlmin THEN iv
                 ELSE IF k # 0
                 THEN IF cs[k] \in iv.snapped THEN iv
                      ELSE [coords |-> [cs EXCEPT ![k] = x],
                            max_dl |-> iv.max_dl,
                            snapped |-> iv.snapped \cup {x}]
                 ELSE LET j == Cardinality({i \in 1..n : cs[i] < x})
                      IN  [coords |-> SubSeq(cs, 1, j) \o <<x>> \o SubSeq(cs, j + 1, n),
                           max_dl |-> SubSeq(iv.max_dl, 1, j) \o <<iv.max_dl[j]>>
                                      \o SubSeq(iv.max_dl, j + 1, n - 1),
                           snapped |-> iv.snapped \cup {x}]

RECURSIVE InsertSnappingPoints(_, _, _)
InsertSnappingPoints(dlmin, iv, points) ==
    IF points = <<>> THEN iv
    ELSE InsertSnappingPoints(dlmin, InsertSnappingPoint(dlmin, iv, Head(points)),
                              Tail(points))

RatioOK(a, b, ms) == Max2(a, b) * ms[2] <= Min2(a, b) * ms[1]

\* The grading: the lexicographically largest sequence of whole-tick steps that
\* fills every interval exactly, keeps each step within the interval's max_dl
\* and each ratio of consecutive steps (around the wrap too when periodic)
\* within max_scale.  Returns <<0>> when no such sequence exists.
\* k: interval, r: length left in it, p: previous step (0 at the start),
\* f: first step (0 at the start), s: the step tried next.
RECURSIVE Grade(_, _, _, _, _, _, _, _, _)
Grade(max_dl_list, len_list, ms, is_periodic, k, r, p, f, s) ==
    IF r = 0
    THEN IF k = Len(len_list)
         THEN IF is_periodic /\ ~RatioOK(p, f, ms) THEN <<0>> ELSE <<>>
         ELSE Grade(max_dl_list, len_list, ms, is_periodic, k + 1, len_list[k + 1],
                    p, f, Min2(max_dl_list[k + 1], len_list[k + 1]))
    ELSE IF s < MinCell THEN <<0>>
    ELSE IF p # 0 /\ ~RatioOK(p, s, ms)
    THEN Grade(max_dl_list, len_list, ms, is_periodic, k, r, p, f, s - 1)
    ELSE LET rest == Grade(max_dl_list, len_list, ms, is_periodic, k, r - s, s,
                           IF f = 0 THEN s ELSE f, Min2(max_dl_list[k], r - s))
         IN  IF rest = <<0>>
             THEN Grade(max_dl_list, len_list, ms, is_periodic, k, r, p, f, s - 1)
             ELSE <<s>> \o rest

MakeGridMultipleIntervals(max_dl_list, len_list, ms, is_periodic) ==
    Grade(max_dl_list, len_list, ms, is_periodic, 1, len_list[1], 0, 0,
          Min2(max_dl_list[1], len_list[1]))

----------------------------------------------------------------------------
(* AbstractAutoGrid._make_coords_initial *)

\* is_periodic of make_coords
is_periodic(g) == g.periodic /\ g.symmetry = 0

\* the intervals with the result of insert_snapping_points not used
Intervals_unsnapped(g, points) ==
    ParseStructures(_preprocessed_structures(g, struct_list(g)), _dl_min(g),
                    _dl_max(g, sim_size_full(g)))

\* the intervals with 0 for self._dl_min in the call of insert_snapping_points
Intervals_nodlmin(g, points) ==
    InsertSnappingPoints(
        0,
        ParseStructures(_preprocessed_structures(g, struct_list(g)), _dl_min(g),
                        _dl_max(g, sim_size_full(g))),
        points)

\* interval_coords and max_dl_list after parse_structures and
\* insert_snapping_points
Intervals(g, points) ==
    LET dl_max == _dl_max(g, sim_size_full(g))
    IN  InsertSnappingPoints(
            _dl_min(g),
            ParseStructures(_preprocessed_structures(g, struct_list(g)), _dl_min(g), dl_max),
            points)

\* _make_coords_initial with the ends set to the domain bounds without the
\* np.isclose test
AutoInitial_forced(g, points) ==
    LET iv == Intervals(g, points)
        n == Len(iv.coords)
    IN  IF n = 1
        THEN LET d == _dl_collapsed_axis(g, sim_size_sym(g))
             IN  [err |-> "none",
                  val |-> <<sim_cent_sym(g) - d \div 2, sim_cent_sym(g) + d \div 2>>,
                  view |-> <<>>]
        ELSE LET len_interval_list == Array([i \in 1..(n - 1) |->
                                                iv.coords[i + 1] - iv.coords[i]])
                 dl_list == MakeGridMultipleIntervals(iv.max_dl, len_interval_list,
                                                      g.max_scale, is_periodic(g))
                 bc == Shift(CumSum(dl_list), iv.coords[1])
             IN  IF dl_list = <<0>>
                 THEN [err |-> "Ungraded", val |-> <<>>, view |-> <<>>]
                 ELSE [err |-> "none",
                       val |-> [bc EXCEPT ![1] = rmin_domain(g),
                                          ![Len(bc)] = rmax_domain(g)],
                       view |-> <<>>]

AutoInitial(g, points) ==
    LET iv == Intervals(g, points)
        n == Len(iv.coords)
    IN  IF n = 1
        THEN LET d == _dl_collapsed_axis(g, sim_size_sym(g))
             IN  [err |-> "none",
                  val |-> <<sim_cent_sym(g) - d \div 2, sim_cent_sym(g) + d \div 2>>,
                  view |-> <<>>]
        ELSE LET len_interval_list == Array([i \in 1..(n - 1) |->
                                                iv.coords[i + 1] - iv.coords[i]])
                 dl_list == MakeGridMultipleIntervals(iv.max_dl, len_interval_list,
                                                      g.max_scale, is_periodic(g))
                 exact == Shift(CumSum(dl_list), iv.coords[1])
                 bc == [exact EXCEPT ![Len(exact)] = @ + g.mesher_error]
             IN  IF dl_list = <<0>>
                 THEN [err |-> "Ungraded", val |-> <<>>, view |-> <<>>]
                 ELSE IF ~(IsClose(bc[1], rmin_domain(g))
                           /\ IsClose(bc[Len(bc)], rmax_domain(g)))
                 THEN [err |-> "SetupError", val |-> <<>>, view |-> <<>>]
                 ELSE [err |-> "none",
                       val |-> [bc EXCEPT ![1] = rmin_domain(g),
                                          ![Len(bc)] = rmax_domain(g)],
                       view |-> <<>>]

\* the strategy's fields and the arguments of make_coords in the current state
AutoArgs ==
    [grid_type |-> grid_type, dl |-> dl, dl_min |-> dl_min, max_scale |-> max_scale,
     min_steps_per_wvl |-> min_steps_per_wvl,
     min_steps_per_sim_size |-> min_steps_per_sim_size,
     wavelength |-> wavelength, periodic |-> periodic, center |-> center,
     size |-> size, symmetry |-> symmetry, other_size |-> other_size,
     other_symmetry |-> other_symmetry, structures |-> structures,
     mesher_error |-> mesher_error]

----------------------------------------------------------------------------
(* State machine: one call of make_coords on inputs drawn by Init *)

\* sequences of 1..MaxCustomCells cell widths
StepTuples == UNION {[1..n -> CustomSteps] : n \in 1..MaxCustomCells}

NoAutoInputs ==
    /\ mesher_error = 0
    /\ dl_min = <<>>
    /\ max_scale = <<1, 1>>
    /\ min_steps_per_wvl = 0
    /\ min_steps_per_sim_size = 0
    /\ wavelength = 0
    /\ periodic = FALSE
    /\ other_size = <<0, 0>>
    /\ other_symmetry = <<0, 0>>
    /\ structures = <<>>
    /\ snapping_points = <<>>

InitUniform ==
    /\ grid_type = "UniformGrid"
    /\ dl \in UniformDls
    /\ size \in Sizes
    /\ size % UniformNumCells(size, dl) = 0
    /\ coords = <<>>
    /\ custom_dl = <<>>
    /\ custom_offset = <<>>
    /\ NoAutoInputs

InitCustomBoundaries ==
    /\ grid_type = "CustomGridBoundaries"
    /\ dl = 0
    /\ size \in Sizes
    /\ \E start \in CoordStarts, steps \in StepTuples :
          coords = Shift(CumSum(steps), start)
    /\ custom_dl = <<>>
    /\ custom_offset = <<>>
    /\ NoAutoInputs

InitCustom ==
    /\ grid_type = "CustomGrid"
    /\ dl = 0
    /\ size \in Sizes
    /\ coords = <<>>
    /\ custom_dl \in StepTuples
    /\ custom_offset \in {<<>>} \cup {<<o>> : o \in CustomOffsets}
    /\ NoAutoInputs

\* the inputs of make_coords that both automatic strategies read
InitAbstractAuto ==
    /\ center = 0
    /\ symmetry \in {0, 1}
    /\ size \in AutoSizes
    /\ num_pml_layers \in AutoPmlLayers
    /\ coords = <<>>
    /\ custom_dl = <<>>
    /\ custom_offset = <<>>
    /\ periodic \in BOOLEAN
    /\ structures \in StructureLists
    /\ snapping_points \in SnapLists
    /\ mesher_error \in MesherErrors
    \* the collapsed cell is halved exactly, and the grading exists
    /\ size = 0 => _dl_collapsed_axis(AutoArgs, sim_size_sym(AutoArgs)) % 2 = 0
    /\ AutoInitial(AutoArgs, snapping_points).err # "Ungraded"
    /\ mesher_error # 0 => snapping_points = <<>> /\ structures = <<>>

InitQuasiUniform ==
    /\ grid_type = "QuasiUniformGrid"
    /\ dl \in QuasiDls
    /\ dl_min \in QuasiDlMins
    /\ min_steps_per_wvl = 1
    /\ min_steps_per_sim_size = 1
    /\ wavelength = 24
    /\ other_size = <<0, 8>>
    /\ other_symmetry = <<0, 0>>
    /\ max_scale = <<3, 2>>
    /\ InitAbstractAuto

InitAuto ==
    /\ grid_type = "AutoGrid"
    /\ dl = 0
    /\ min_steps_per_wvl = 6
    /\ \E a \in AutoSettings :
          /\ dl_min = a.dl_min
          /\ max_scale = a.max_scale
          /\ wavelength = a.wavelength
          /\ min_steps_per_sim_size = a.min_steps_per_sim_size
          /\ other_size = a.other_size
          /\ other_symmetry = a.other_symmetry
    /\ InitAbstractAuto

\* make_grid is not called
NoMakeGrid ==
    /\ grid_xyz = <<>>
    /\ gs_wavelength = <<>>
    /\ gs_override_structures = <<>>
    /\ layer_refinement_specs = <<>>
    /\ mg_structures = <<>>
    /\ sources = <<>>
    /\ mg_pc = "idle"
    /\ mg_error = "none"
    /\ mg_wavelength = <<>>
    /\ grids_1d = <<>>
    /\ gs_snapping_points = <<>>
    /\ mg_override_structures = <<>>
    /\ mg_snapping_points = <<>>

\* no refinement object is made
NoRefinement ==
    /\ refinement = <<>>
    /\ ref_center = <<>>
    /\ grid_size_in_vacuum = 0
    /\ layer = <<>>
    /\ lr_pc = "idle"
    /\ ref_structure = <<>>
    /\ lr_snapping_points = <<>>
    /\ lr_override_structures = <<>>

\* monitor is not called
NoMonitor ==
    /\ task_type = "none"
    /\ server_status = "none"
    /\ verbose = FALSE
    /\ mon_pc = "idle"
    /\ mon_status = "unseen"
    /\ perc_done = <<>>

\* no HeatChargeSimulation is made
NoHeatCharge ==
    /\ hc_structures = <<>>
    /\ hc_boundary_spec = <<>>
    /\ hc_sources = <<>>
    /\ hc_monitors = <<>>
    /\ hc_call = "none"
    /\ hc_pc = "idle"
    /\ hc_error = "none"

Init ==
    /\ NoMakeGrid
    /\ NoRefinement
    /\ NoMonitor
    /\ NoHeatCharge
    /\ center \in Centers
    /\ symmetry \in Symmetries
    /\ num_pml_layers \in PmlLayers
    /\ pc = "start"
    /\ error = "none"
    /\ initial = <<>>
    /\ folded = <<>>
    /\ bound_coords = <<>>
    /\ \/ InitUniform
       \/ InitCustomBoundaries
       \/ InitCustom
       \/ InitQuasiUniform
       \/ InitAuto

Inputs == <<grid_type, dl, custom_dl, custom_offset, dl_min, max_scale,
            min_steps_per_wvl, min_steps_per_sim_size, wavelength, periodic,
            other_size, other_symmetry, structures, snapping_points,
            center, size, symmetry, num_pml_layers, mesher_error>>

Return(r) ==
    /\ pc' = "done"
    /\ error' = r.err
    /\ initial' = r.initial
    /\ folded' = r.folded
    /\ bound_coords' = r.final
    /\ UNCHANGED <<make_grid_vars, refinement_vars, monitor_vars, heat_charge_vars>>

MakeCoordsUniform ==
    /\ pc = "start"
    /\ grid_type = "UniformGrid"
    /\ \E r \in {FinishCoords(UniformInitial(center, size, dl), center, symmetry,
                             num_pml_layers)} : Return(r)
    /\ UNCHANGED <<Inputs, coords>>

MakeCoordsCustomBoundaries ==
    /\ pc = "start"
    /\ grid_type = "CustomGridBoundaries"
    /\ \E init \in {CustomBoundariesInitial(center, size, coords)} :
          /\ \E r \in {FinishCoords(init, center, symmetry, num_pml_layers)} : Return(r)
          /\ coords' = CoordsAfter(coords, init, center, symmetry)
    /\ UNCHANGED Inputs

MakeCoordsCustom ==
    /\ pc = "start"
    /\ grid_type = "CustomGrid"
    /\ \E r \in {FinishCoords(CustomInitial(center, size, custom_dl, custom_offset),
                             center, symmetry, num_pml_layers)} : Return(r)
    /\ UNCHANGED <<Inputs, coords>>

MakeCoordsQuasiUniform ==
    /\ pc = "start"
    /\ grid_type = "QuasiUniformGrid"
    /\ \E r \in {FinishCoords(AutoInitial(AutoArgs, snapping_points), center,
                             symmetry, num_pml_layers)} : Return(r)
    /\ UNCHANGED <<Inputs, coords>>

MakeCoordsAuto ==
    /\ pc = "start"
    /\ grid_type = "AutoGrid"
    /\ \E r \in {FinishCoords(AutoInitial(AutoArgs, snapping_points), center,
                             symmetry, num_pml_layers)} : Return(r)
    /\ UNCHANGED <<Inputs, coords>>

Next ==
    \/ MakeCoordsUniform
    \/ MakeCoordsCustomBoundaries
    \/ MakeCoordsCustom
    \/ MakeCoordsQuasiUniform
    \/ MakeCoordsAuto

Spec == Init /\ [][Next]_vars

----------------------------------------------------------------------------
(* Properties of make_coords *)

Returned == pc = "done" /\ error = "none"

domain_min == center - size \div 2

domain_max == center + size \div 2

IsAuto == grid_type \in {"QuasiUniformGrid", "AutoGrid"}

IsCustom == grid_type \in {"CustomGridBoundaries", "CustomGrid"}

Elems(s) == {s[i] : i \in 1..Len(s)}

Mirrored(s, c) == \A x \in Elems(s) : 2 * c - x \in Elems(s)

FirstCell(s) == s[2] - s[1]

LastCell(s) == s[Len(s)] - s[Len(s) - 1]

C5_NoEffect ==
    (/\ Returned
     /\ IsAuto
     /\ \A k \in 1..Len(snapping_points) :
           snapping_points[k][1] # <<>> =>
               \/ snapping_points[k][1][1] < domain_min
               \/ snapping_points[k][1][1] > domain_max
               \/ Abs(snapping_points[k][1][1] - domain_min) <= _dl_min(AutoArgs)
               \/ Abs(snapping_points[k][1][1] - domain_max) <= _dl_min(AutoArgs))
    => \A r \in {FinishCoords(AutoInitial(AutoArgs, <<>>), center, symmetry,
                              num_pml_layers)} :
          r.err = "none" /\ r.final = bound_coords

\* a point one tick inside the upper bound of the domain, which is not on the grid
C5_Witness ==
    /\ Returned
    /\ IsAuto
    /\ size = 16
    /\ snapping_points = <<Point(7)>>
    /\ 7 \notin Elems(bound_coords)

\* C6 (as amended): with symmetry[axis] not 0 the array before PML is added is
\* its own mirror image about the centre of the domain, and so is the returned
\* array when the two PML layer counts are equal; when they differ and the array
\* has a cell, the returned array is not its own mirror image.
C6_Symmetric ==
    (Returned /\ symmetry # 0) =>
        /\ Mirrored(folded, center)
        /\ num_pml_layers[1] = num_pml_layers[2] => Mirrored(bound_coords, center)
        /\ (num_pml_layers[1] # num_pml_layers[2] /\ Len(folded) >= 2) =>
              ~Mirrored(bound_coords, center)

\* C6 as stated: with symmetry[axis] = 1 the returned array is its own mirror
\* image for every pair of PML layer counts
C6_Original == (Returned /\ symmetry = 1) => Mirrored(bound_coords, center)

\* a folded array with one PML layer on each side
C6_Witness ==
    /\ Returned
    /\ symmetry = 1
    /\ num_pml_layers = <<1, 1>>
    /\ Len(folded) >= 3
    /\ Len(bound_coords) = Len(folded) + 2

\* C7 (as amended): for S > 0 UniformGrid makes ceil(S/d)+1 boundaries from
\* c - S/2 to c + S/2; for S = 0 it makes the two boundaries c and c + d; without
\* symmetry and PML make_coords returns that array.
C7_UniformExact ==
    (Returned /\ grid_type = "UniformGrid") =>
        /\ size > 0 =>
              /\ Len(initial) = CeilDiv(size, dl) + 1
              /\ initial[1] = domain_min
              /\ initial[Len(initial)] = domain_max
        /\ size = 0 => initial = <<center, center + dl>>
        /\ (symmetry = 0 /\ num_pml_layers = <<0, 0>>) => bound_coords = initial

\* C7 as stated, read without symmetry and PML: ceil(S/d)+1 boundaries from
\* c - S/2 to c + S/2 for every S >= 0
C7_Original ==
    (Returned /\ grid_type = "UniformGrid" /\ symmetry = 0 /\ num_pml_layers = <<0, 0>>) =>
        /\ Len(bound_coords) = CeilDiv(size, dl) + 1
        /\ bound_coords[1] = domain_min
        /\ bound_coords[Len(bound_coords)] = domain_max

\* a domain of 12 ticks with dl = 5: three cells of 4 ticks
C7_Witness ==
    /\ Returned
    /\ grid_type = "UniformGrid"
    /\ size = 12
    /\ dl = 5
    /\ symmetry = 0
    /\ num_pml_layers = <<0, 0>>
    /\ Len(bound_coords) = 4

\* C8: _add_pml_to_bounds returns bounds with num_layers[0] points before it and
\* num_layers[1] points after it, the points before spaced by the first cell of
\* bounds and the points after by its last cell, and bounds itself between them;
\* bounds with fewer than 2 points is returned unchanged.
C8_PmlLayers ==
    Returned =>
        IF Len(folded) < 2
        THEN bound_coords = folded
        ELSE /\ Len(bound_coords) = num_pml_layers[1] + Len(folded) + num_pml_layers[2]
             /\ SubSeq(bound_coords, num_pml_layers[1] + 1,
                       num_pml_layers[1] + Len(folded)) = folded
             /\ \A i \in 1..num_pml_layers[1] :
                   bound_coords[i + 1] - bound_coords[i] = FirstCell(folded)
             /\ \A i \in (num_pml_layers[1] + Len(folded))..(Len(bound_coords) - 1) :
                   bound_coords[i + 1] - bound_coords[i] = LastCell(folded)

\* layers added on both sides of an array whose first and last cells differ
C8_Witness ==
    /\ Returned
    /\ num_pml_layers = <<MaxPml, 1>>
    /\ Len(folded) >= 3
    /\ FirstCell(folded) # LastCell(folded)
    /\ Len(bound_coords) = Len(folded) + MaxPml + 1

\* the coords that lie inside the domain with its bounds relaxed
C9_Kept ==
    SelectSeq(coords, LAMBDA x : x >= domain_min - Relax /\ x <= domain_max + Relax)

\* C9 (as amended): with CustomGridBoundaries(coords), no symmetry, no PML and a
\* nonzero size: when the first and last coords are the domain bounds the result
\* is coords; otherwise the result is the coords inside the domain, preceded by
\* as many boundaries spaced by their first cell, and followed by as many spaced
\* by their last cell, as fit in the domain; with fewer than two coords inside,
\* no grid is returned.
C9_CustomBoundaries ==
    (/\ pc = "done"
     /\ grid_type = "CustomGridBoundaries"
     /\ symmetry = 0
     /\ num_pml_layers = <<0, 0>>
     /\ size > 0)
    => \A kept \in {C9_Kept} :
          /\ (coords[1] = domain_min /\ coords[Len(coords)] = domain_max) =>
                (error = "none" /\ bound_coords = coords)
          /\ Len(kept) < 2 => error \in {"SetupError", "IndexError"}
          /\ Len(kept) >= 2 =>
                /\ error = "none"
                /\ \E a \in 0..Len(bound_coords) :
                      /\ a + Len(kept) <= Len(bound_coords)
                      /\ SubSeq(bound_coords, a + 1, a + Len(kept)) = kept
                      /\ \A i \in 1..a :
                            bound_coords[i + 1] - bound_coords[i] = FirstCell(kept)
                      /\ \A i \in (a + Len(kept))..(Len(bound_coords) - 1) :
                            bound_coords[i + 1] - bound_coords[i] = LastCell(kept)
                /\ bound_coords[1] >= domain_min - Relax
                /\ bound_coords[1] - FirstCell(kept) < domain_min - Relax
                /\ bound_coords[Len(bound_coords)] <= domain_max + Relax
                /\ bound_coords[Len(bound_coords)] + LastCell(kept) > domain_max + Relax

\* C9 as stated: coords that end on the domain bounds are returned as they are,
\* and coords that reach beyond a smaller domain are cut to those inside it
C9_Original ==
    (/\ Returned
     /\ grid_type = "CustomGridBoundaries"
     /\ symmetry = 0
     /\ num_pml_layers = <<0, 0>>
     /\ size > 0)
    => /\ (coords[1] = domain_min /\ coords[Len(coords)] = domain_max) =>
             bound_coords = coords
       /\ (coords[1] <= domain_min /\ coords[Len(coords)] >= domain_max) =>
             bound_coords = C9_Kept

\* equally spaced coords cut on one side to the coords inside a smaller domain
C9_Witness ==
    /\ Returned
    /\ grid_type = "CustomGridBoundaries"
    /\ symmetry = 0
    /\ num_pml_layers = <<0, 0>>
    /\ coords = <<-8, -4, 0, 4>>
    /\ center = 0
    /\ size = 8
    /\ bound_coords = <<-4, 0, 4>>

\* the array that CustomGridBoundaries or CustomGrid hands to the postprocessing
SuppliedArray ==
    IF grid_type = "CustomGridBoundaries"
    THEN coords
    ELSE CustomPlaced(center, custom_dl, custom_offset)

\* C10 as stated: when the supplied array lies entirely above the upper bound
\* of the domain or entirely below its lower bound, make_coords raises
\* SetupError and returns no grid, also for a zero-size domain.
C10_Original ==
    (/\ pc = "done"
     /\ IsCustom
     /\ \/ SuppliedArray[1] > domain_max
        \/ SuppliedArray[Len(SuppliedArray)] < domain_min)
    => error = "SetupError"

\* coords that begin one float32 step above the upper bound of a nonzero-size
\* domain: the clipped array has one point and indexing it raises IndexError
C10_Witness ==
    /\ pc = "done"
    /\ grid_type = "CustomGridBoundaries"
    /\ center = 0
    /\ size = 8
    /\ coords[1] = domain_max + Relax
    /\ error = "IndexError"

C13_Original == [][coords' = coords /\ dl_min' = dl_min]_vars

\* a CustomGridBoundaries on a zero-size axis with symmetry, whose stored coords
\* after the call are no longer spaced by the steps they were made with
C13_Witness ==
    /\ Returned
    /\ grid_type = "CustomGridBoundaries"
    /\ size = 0
    /\ symmetry # 0
    /\ Len(coords) >= 3
    /\ \E i \in 1..(Len(coords) - 1) : coords[i + 1] - coords[i] \notin CustomSteps

----------------------------------------------------------------------------
(* GridRefinement and LayerRefinementSpec.  A Box is given by its center and *)
(* size; an infinite size is inf.  A CoordinateOptional is a triple of       *)
(* optional values.                                                          *)

inf == 1000000

DEFAULT_REFINEMENT_FACTOR == 2

GridRefinements ==
    {[refinement_factor |-> f, dl |-> d, num_cells |-> n] :
        f \in {<<>>, <<2>>, <<4>>}, d \in {<<>>, <<1>>, <<6>>}, n \in {1, 3}}

RefCenters == {<<<<>>, <<>>, <<0>>>>, <<<<5>>, <<>>, <<>>>>, <<<<1>>, <<2>>, <<3>>>>}

VacuumSteps == {4, 8, 12}

BoundsRefinements ==
    {<<>>,
     <<[refinement_factor |-> <<2>>, dl |-> <<>>, num_cells |-> 3]>>,
     <<[refinement_factor |-> <<>>, dl |-> <<6>>, num_cells |-> 1]>>}

LayerSizes ==
    {<<inf, inf, 2>>, <<inf, inf, 0>>, <<inf, inf, 8>>, <<8, 4, inf>>, <<2, inf, 4>>,
     <<inf, inf, inf>>}

LayerArgs ==
    {[axis |-> a, center |-> c, size |-> sz, bounds_snapping |-> b,
      min_steps_along_axis |-> m, bounds_refinement |-> r,
      corner_finder |-> <<>>, corner_refinement |-> <<>>,
      refinement_inside_sim_only |-> TRUE] :
        a \in {0, 2}, c \in {<<0, 0, 0>>, <<0, 0, 5>>}, sz \in LayerSizes,
        b \in {<<>>, <<"bounds">>, <<"lower">>, <<"upper">>, <<"center">>},
        m \in {<<>>, <<2>>}, r \in BoundsRefinements}

_refinement_factor(r) ==
    IF r.refinement_factor = <<>> /\ r.dl = <<>>
    THEN <<DEFAULT_REFINEMENT_FACTOR>>
    ELSE r.refinement_factor

\* _grid_size with the explicit dl ignored when a refinement factor is set
_grid_size_factor_only(r, gsv) ==
    IF _refinement_factor(r) # <<>>
    THEN Min2(inf, gsv \div _refinement_factor(r)[1])
    ELSE Min2(inf, r.dl[1])

_grid_size(r, gsv) ==
    LET from_factor == IF _refinement_factor(r) # <<>>
                       THEN Min2(inf, gsv \div _refinement_factor(r)[1])
                       ELSE inf
    IN  IF r.dl # <<>> THEN Min2(from_factor, r.dl[1]) ELSE from_factor

\* a MeshOverrideStructure: the center and size of its Box, dl, shadow and
\* drop_outside_sim
override_structure(r, c, gsv, drop_outside_sim) ==
    [center |-> Array([i \in 1..3 |-> IF c[i] = <<>> THEN 0 ELSE c[i][1]]),
     size |-> Array([i \in 1..3 |-> IF c[i] = <<>> THEN inf
                                    ELSE _grid_size(r, gsv) * r.num_cells]),
     dl |-> Array([i \in 1..3 |-> IF c[i] = <<>> THEN <<>> ELSE <<_grid_size(r, gsv)>>]),
     shadow |-> FALSE,
     drop_outside_sim |-> drop_outside_sim]

\* Box.bounds along one axis, doubled so that a box of odd size has integer
\* bounds
BoxMin2(box, i) == IF box.size[i] = inf THEN -2 * inf ELSE 2 * box.center[i] - box.size[i]

BoxMax2(box, i) == IF box.size[i] = inf THEN 2 * inf ELSE 2 * box.center[i] + box.size[i]

\* Box.intersects
BoxIntersects(a, b) ==
    \A i \in 1..3 : BoxMin2(a, i) <= BoxMax2(b, i) /\ BoxMin2(b, i) <= BoxMax2(a, i)

\* Box.from_bounds of Box.bounds_union of the two boxes
BoxUnion(a, b) ==
    [center |-> Array([i \in 1..3 |->
                    IF a.size[i] = inf \/ b.size[i] = inf THEN 0
                    ELSE (Min2(BoxMin2(a, i), BoxMin2(b, i))
                          + Max2(BoxMax2(a, i), BoxMax2(b, i))) \div 4]),
     size |-> Array([i \in 1..3 |->
                    IF a.size[i] = inf \/ b.size[i] = inf THEN inf
                    ELSE (Max2(BoxMax2(a, i), BoxMax2(b, i))
                          - Min2(BoxMin2(a, i), BoxMin2(b, i))) \div 2])]

\* the validator rejecting an infinite size along any of the three axes
_finite_size_any_axis(l) ==
    IF \E i \in 1..3 : l.size[i] = inf THEN "SetupError" ELSE "none"

_finite_size_along_axis(l) == IF l.size[l.axis + 1] = inf THEN "SetupError" ELSE "none"

length_axis(l) == l.size[l.axis + 1]

center_axis(l) == l.center[l.axis + 1]

_unpop_axis(l, ax_coord, plane_coord) ==
    Array([i \in 1..3 |-> IF i = l.axis + 1 THEN ax_coord ELSE plane_coord])

\* self.bounds[index][self.axis]
LayerBound(l, index) ==
    IF index = 0
    THEN center_axis(l) - length_axis(l) \div 2
    ELSE center_axis(l) + length_axis(l) \div 2

\* range(1 + (self.length_axis > 0))
BoundIndices(l) == IF length_axis(l) > 0 THEN <<0, 1>> ELSE <<0>>

\* _snapping_points_along_axis with the lower bound taken for "upper"
_snapping_points_lower_for_upper(l) ==
    IF l.bounds_snapping = <<>> THEN <<>>
    ELSE IF l.bounds_snapping[1] = "center"
    THEN <<_unpop_axis(l, <<center_axis(l)>>, <<>>)>>
    ELSE IF l.bounds_snapping[1] \in {"lower", "upper"}
    THEN <<_unpop_axis(l, <<LayerBound(l, 0)>>, <<>>)>>
    ELSE Array([k \in 1..Len(BoundIndices(l)) |->
                    _unpop_axis(l, <<LayerBound(l, BoundIndices(l)[k])>>, <<>>)])

_snapping_points_along_axis(l) ==
    IF l.bounds_snapping = <<>> THEN <<>>
    ELSE IF l.bounds_snapping[1] = "center"
    THEN <<_unpop_axis(l, <<center_axis(l)>>, <<>>)>>
    ELSE IF l.bounds_snapping[1] = "lower"
    THEN <<_unpop_axis(l, <<LayerBound(l, 0)>>, <<>>)>>
    ELSE IF l.bounds_snapping[1] = "upper"
    THEN <<_unpop_axis(l, <<LayerBound(l, 1)>>, <<>>)>>
    ELSE Array([k \in 1..Len(BoundIndices(l)) |->
                    _unpop_axis(l, <<LayerBound(l, BoundIndices(l)[k])>>, <<>>)])

\* the step of the override structure made for min_steps_along_axis, inf if
\* none is made
MinStepsDl(l) ==
    IF l.min_steps_along_axis # <<>> /\ length_axis(l) > 0
    THEN length_axis(l) \div l.min_steps_along_axis[1]
    ELSE inf

MinStepsStructures(l) ==
    IF l.min_steps_along_axis # <<>> /\ length_axis(l) > 0
    THEN <<[center |-> _unpop_axis(l, center_axis(l), 0),
            size |-> _unpop_axis(l, length_axis(l), inf),
            dl |-> _unpop_axis(l, <<MinStepsDl(l)>>, <<>>),
            shadow |-> FALSE,
            drop_outside_sim |-> l.refinement_inside_sim_only]>>
    ELSE <<>>

\* refinement_structures before the two are combined
BoundsStructures(l, gsv) ==
    Array([k \in 1..Len(BoundIndices(l)) |->
              override_structure(l.bounds_refinement[1],
                                 _unpop_axis(l, <<LayerBound(l, BoundIndices(l)[k])>>, <<>>),
                                 gsv, l.refinement_inside_sim_only)])

\* refinement_structures after the two are combined to one if they overlap
CombinedStructures(each, drop_outside_sim) ==
    IF Len(each) = 2 /\ BoxIntersects(each[1], each[2])
    THEN <<[center |-> BoxUnion(each[1], each[2]).center,
            size |-> BoxUnion(each[1], each[2]).size,
            dl |-> each[1].dl,
            shadow |-> FALSE,
            drop_outside_sim |-> drop_outside_sim]>>
    ELSE each

\* _override_structures_along_axis that never combines the two structures
_override_structures_uncombined(l, gsv) ==
    MinStepsStructures(l)
    \o (IF l.bounds_refinement = <<>> THEN <<>>
        ELSE IF BoundsStructures(l, gsv)[1].dl[l.axis + 1][1] <= MinStepsDl(l)
        THEN BoundsStructures(l, gsv)
        ELSE <<>>)

\* _override_structures_along_axis with "<" for "<=" in the last test
_override_structures_strict(l, gsv) ==
    MinStepsStructures(l)
    \o (IF l.bounds_refinement = <<>> THEN <<>>
        ELSE IF BoundsStructures(l, gsv)[1].dl[l.axis + 1][1] < MinStepsDl(l)
        THEN CombinedStructures(BoundsStructures(l, gsv), l.refinement_inside_sim_only)
        ELSE <<>>)

_override_structures_along_axis(l, gsv) ==
    MinStepsStructures(l)
    \o (IF l.bounds_refinement = <<>> THEN <<>>
        ELSE IF BoundsStructures(l, gsv)[1].dl[l.axis + 1][1] <= MinStepsDl(l)
        THEN CombinedStructures(BoundsStructures(l, gsv), l.refinement_inside_sim_only)
        ELSE <<>>)

suggested_dl_min(l, gsv) ==
    LET snap == IF length_axis(l) > 0 /\ l.bounds_snapping = <<"bounds">>
                THEN length_axis(l) ELSE inf
        steps == IF length_axis(l) > 0 /\ l.min_steps_along_axis # <<>>
                 THEN length_axis(l) \div l.min_steps_along_axis[1] ELSE inf
        bounds == IF length_axis(l) > 0 /\ l.bounds_refinement # <<>>
                  THEN _grid_size(l.bounds_refinement[1], gsv) ELSE inf
        corner == IF l.corner_finder # <<>> /\ l.corner_refinement # <<>>
                  THEN _grid_size(l.corner_refinement[1], gsv) ELSE inf
    IN  Min2(Min2(snap, steps), Min2(bounds, corner))

(* State machine: a GridRefinement makes an override structure; a            *)
(* LayerRefinementSpec is constructed and, if valid, makes its snapping      *)
(* points and its override structures along the axis.                        *)

NoMakeCoords ==
    /\ grid_type = "none"
    /\ dl = 0
    /\ coords = <<>>
    /\ custom_dl = <<>>
    /\ custom_offset = <<>>
    /\ dl_min = <<>>
    /\ max_scale = <<1, 1>>
    /\ min_steps_per_wvl = 1
    /\ min_steps_per_sim_size = 1
    /\ wavelength = 0
    /\ periodic = FALSE
    /\ other_size = <<0, 0>>
    /\ other_symmetry = <<0, 0>>
    /\ structures = <<>>
    /\ snapping_points = <<>>
    /\ center = 0
    /\ size = 0
    /\ symmetry = 0
    /\ num_pml_layers = <<0, 0>>
    /\ pc = "idle"
    /\ error = "none"
    /\ initial = <<>>
    /\ folded = <<>>
    /\ bound_coords = <<>>
    /\ mesher_error = 0

InitRefinement ==
    /\ NoMakeCoords
    /\ NoMakeGrid
    /\ NoMonitor
    /\ NoHeatCharge
    /\ grid_size_in_vacuum \in VacuumSteps
    /\ \/ /\ refinement \in GridRefinements
          /\ ref_center \in RefCenters
          /\ layer = CHOOSE l \in LayerArgs : TRUE
       \/ /\ refinement = CHOOSE r \in GridRefinements : TRUE
          /\ ref_center = CHOOSE c \in RefCenters : TRUE
          /\ layer \in LayerArgs
    /\ lr_pc = "new"
    /\ ref_structure = <<>>
    /\ lr_snapping_points = <<>>
    /\ lr_override_structures = <<>>

OverrideStructure ==
    /\ ref_structure = <<>>
    /\ ref_structure' = <<override_structure(refinement, ref_center,
                                             grid_size_in_vacuum, TRUE)>>
    /\ UNCHANGED <<refinement, ref_center, grid_size_in_vacuum, layer, lr_pc,
                   lr_snapping_points, lr_override_structures>>
    /\ UNCHANGED <<make_coords_vars, make_grid_vars, monitor_vars, heat_charge_vars>>

ConstructLayer ==
    /\ lr_pc = "new"
    /\ lr_pc' = IF _finite_size_along_axis(layer) = "none" THEN "valid" ELSE "rejected"
    /\ UNCHANGED <<refinement, ref_center, grid_size_in_vacuum, layer, ref_structure,
                   lr_snapping_points, lr_override_structures>>
    /\ UNCHANGED <<make_coords_vars, make_grid_vars, monitor_vars, heat_charge_vars>>

SnappingPointsAlongAxis ==
    /\ lr_pc = "valid"
    /\ lr_snapping_points = <<>>
    /\ lr_snapping_points' = <<_snapping_points_along_axis(layer)>>
    /\ UNCHANGED <<refinement, ref_center, grid_size_in_vacuum, layer, lr_pc,
                   ref_structure, lr_override_structures>>
    /\ UNCHANGED <<make_coords_vars, make_grid_vars, monitor_vars, heat_charge_vars>>

OverrideStructuresAlongAxis ==
    /\ lr_pc = "valid"
    /\ lr_override_structures = <<>>
    /\ lr_override_structures' =
          <<_override_structures_along_axis(layer, grid_size_in_vacuum)>>
    /\ UNCHANGED <<refinement, ref_center, grid_size_in_vacuum, layer, lr_pc,
                   ref_structure, lr_snapping_points>>
    /\ UNCHANGED <<make_coords_vars, make_grid_vars, monitor_vars, heat_charge_vars>>

NextRefinement ==
    \/ OverrideStructure
    \/ ConstructLayer
    \/ SnappingPointsAlongAxis
    \/ OverrideStructuresAlongAxis

SpecRefinement == InitRefinement /\ [][NextRefinement]_vars

(* Properties of GridRefinement and LayerRefinementSpec *)

\* the values the step is the minimum of: grid_size_in_vacuum divided by the
\* refinement factor (2 when neither refinement_factor nor dl is set), and dl
StepCandidates ==
    (IF refinement.refinement_factor # <<>>
     THEN {grid_size_in_vacuum \div refinement.refinement_factor[1]}
     ELSE IF refinement.dl = <<>> THEN {grid_size_in_vacuum \div 2} ELSE {})
    \cup Elems(refinement.dl)

\* C14: the override structure of a GridRefinement has for step the minimum of
\* grid_size_in_vacuum / refinement_factor and dl over whichever is set
\* (factor 2 when neither is); on each axis where center has a value the box
\* is centred there with size step * num_cells and dl equal to the step; on
\* each axis where center is None the size is infinite and dl is None.
C14_OverrideStructure ==
    ref_structure # <<>> =>
        \A step \in {d \in StepCandidates : \A e \in StepCandidates : d <= e} :
            \A i \in 1..3 :
                IF ref_center[i] # <<>>
                THEN /\ ref_structure[1].center[i] = ref_center[i][1]
                     /\ ref_structure[1].size[i] = step * refinement.num_cells
                     /\ ref_structure[1].dl[i] = <<step>>
                ELSE /\ ref_structure[1].size[i] = inf
                     /\ ref_structure[1].dl[i] = <<>>

\* C14 witness: both refinement_factor and dl are set, dl is the smaller one,
\* and the structure made has a centred axis and a free axis.
C14_Witness ==
    /\ ref_structure # <<>>
    /\ refinement.refinement_factor = <<2>>
    /\ refinement.dl = <<1>>
    /\ refinement.num_cells = 3
    /\ grid_size_in_vacuum = 12
    /\ ref_center = <<<<5>>, <<>>, <<>>>>
    /\ ref_structure[1].size = <<3, inf, inf>>

\* C15: a LayerRefinementSpec whose size along its axis is infinite is
\* rejected; one whose size along its axis is finite is accepted, infinite
\* in-plane sizes included.
C15_FiniteAlongAxis ==
    /\ lr_pc = "rejected" <=> (lr_pc # "new" /\ layer.size[layer.axis + 1] = inf)
    /\ lr_pc = "valid" <=> (lr_pc # "new" /\ layer.size[layer.axis + 1] # inf)

\* C15 witness: a layer infinite in both in-plane dimensions was accepted.
C15_Witness ==
    /\ lr_pc = "valid"
    /\ layer.axis = 2
    /\ layer.size = <<inf, inf, 2>>

\* C15 witness of the rejection: a layer infinite along its axis.
C15_WitnessRejected ==
    /\ lr_pc = "rejected"
    /\ layer.axis = 0
    /\ layer.size = <<inf, inf, 2>>

\* the point on the layer's axis at x, free in the plane
AxisPoint(x) == [i \in 1..3 |-> IF i = layer.axis + 1 THEN <<x>> ELSE <<>>]

LayerMin == layer.center[layer.axis + 1] - layer.size[layer.axis + 1] \div 2

LayerMax == layer.center[layer.axis + 1] + layer.size[layer.axis + 1] \div 2

\* C16: the snapping points along the axis follow bounds_snapping: "lower" one
\* point at the minimum bound, "upper" one at the maximum bound, "center" one
\* at the midpoint, "bounds" the minimum and the maximum bound points (the one
\* point where they coincide for a layer of zero thickness), None no point;
\* every point is None along the two in-plane axes.
C16_SnappingPoints ==
    lr_snapping_points # <<>> =>
        /\ layer.bounds_snapping = <<>> => lr_snapping_points[1] = <<>>
        /\ layer.bounds_snapping = <<"lower">> =>
              lr_snapping_points[1] = <<AxisPoint(LayerMin)>>
        /\ layer.bounds_snapping = <<"upper">> =>
              lr_snapping_points[1] = <<AxisPoint(LayerMax)>>
        /\ layer.bounds_snapping = <<"center">> =>
              lr_snapping_points[1] = <<AxisPoint(layer.center[layer.axis + 1])>>
        /\ layer.bounds_snapping = <<"bounds">> =>
              /\ Elems(lr_snapping_points[1]) = {AxisPoint(LayerMin), AxisPoint(LayerMax)}
              /\ Len(lr_snapping_points[1]) = Cardinality({LayerMin, LayerMax})

\* C16 witness: "upper" on a layer from 1 to 9 along z gives the point at 9.
C16_Witness ==
    /\ lr_snapping_points = <<<<(<<<<>>, <<>>, <<9>>>>)>>>>
    /\ layer.bounds_snapping = <<"upper">>
    /\ layer.axis = 2
    /\ layer.center = <<0, 0, 5>>
    /\ layer.size = <<inf, inf, 8>>

\* C16 witness for "bounds": two points, at 1 and at 9.
C16_WitnessBounds ==
    /\ lr_snapping_points = <<<<(<<<<>>, <<>>, <<1>>>>), (<<<<>>, <<>>, <<9>>>>)>>>>
    /\ layer.bounds_snapping = <<"bounds">>

\* the lower and the upper boundary-refinement box of the layer
LowerBox ==
    override_structure(layer.bounds_refinement[1], AxisPoint(LayerMin),
                       grid_size_in_vacuum, layer.refinement_inside_sim_only)

UpperBox ==
    override_structure(layer.bounds_refinement[1], AxisPoint(LayerMax),
                       grid_size_in_vacuum, layer.refinement_inside_sim_only)

\* the override structures made, without the one made for min_steps_along_axis
Emitted ==
    SubSeq(lr_override_structures[1],
           Len(MinStepsStructures(layer)) + 1, Len(lr_override_structures[1]))

\* the boundary-refinement step is no greater than the step that
\* min_steps_along_axis asks for (always so when min_steps_along_axis is unset)
RefinementIsFiner ==
    \/ layer.min_steps_along_axis = <<>>
    \/ _grid_size(layer.bounds_refinement[1], grid_size_in_vacuum)
          <= layer.size[layer.axis + 1] \div layer.min_steps_along_axis[1]

\* the two boxes as emitted when they intersect: one structure, the union box
MergedAsUnion ==
    /\ Len(Emitted) = 1
    /\ \A i \in 1..3 :
          /\ BoxMin2(Emitted[1], i) = Min2(BoxMin2(LowerBox, i), BoxMin2(UpperBox, i))
          /\ BoxMax2(Emitted[1], i) = Max2(BoxMax2(LowerBox, i), BoxMax2(UpperBox, i))
    /\ Emitted[1].dl = LowerBox.dl

\* C17 (amended): with bounds_refinement set and nonzero thickness, the
\* boundary-refinement boxes are emitted only if their step is no greater than
\* the step from min_steps_along_axis; then as one structure with the union
\* box if the two intersect and as the two separate structures if not;
\* otherwise none is emitted.
C17_BoundsRefinement ==
    (lr_override_structures # <<>> /\ layer.bounds_refinement # <<>>
     /\ layer.size[layer.axis + 1] > 0) =>
        /\ RefinementIsFiner /\ BoxIntersects(LowerBox, UpperBox) => MergedAsUnion
        /\ RefinementIsFiner /\ ~BoxIntersects(LowerBox, UpperBox) =>
              Emitted = <<LowerBox, UpperBox>>
        /\ ~RefinementIsFiner => Emitted = <<>>

\* C17 as stated: one union structure if the boxes intersect, two if not,
\* whatever min_steps_along_axis asks for.
C17_Original ==
    (lr_override_structures # <<>> /\ layer.bounds_refinement # <<>>
     /\ layer.size[layer.axis + 1] > 0) =>
        /\ BoxIntersects(LowerBox, UpperBox) => MergedAsUnion
        /\ ~BoxIntersects(LowerBox, UpperBox) => Emitted = <<LowerBox, UpperBox>>

\* C17 witness: boxes of size 6 around the bounds of a layer of thickness 2
\* intersect and were merged to the box from -4 to 4.
C17_Witness ==
    /\ lr_override_structures # <<>>
    /\ layer.bounds_refinement # <<>>
    /\ layer.min_steps_along_axis = <<>>
    /\ layer.axis = 2
    /\ layer.center = <<0, 0, 0>>
    /\ layer.size = <<inf, inf, 2>>
    /\ Len(lr_override_structures[1]) = 1
    /\ lr_override_structures[1][1].size = <<inf, inf, 8>>
    /\ lr_override_structures[1][1].center = <<0, 0, 0>>

\* C17 witness of the separate case: thickness 8, boxes of size 6.
C17_WitnessSeparate ==
    /\ lr_override_structures # <<>>
    /\ layer.bounds_refinement # <<>>
    /\ layer.min_steps_along_axis = <<>>
    /\ layer.size[layer.axis + 1] = 8
    /\ grid_size_in_vacuum = 4
    /\ Len(lr_override_structures[1]) = 2

----------------------------------------------------------------------------
(* GridSpec.make_grid up to the per-axis calls of make_coords: the           *)
(* wavelength, and the dl_min given to AutoGrid axes that have none.         *)
(* Frequencies and lengths are integers with C_0 = 720; np.isclose on the    *)
(* central frequencies is equality.                                          *)

C_0 == 720

\* 0.5 as numerator and denominator
MIN_STEP_BOUND_SCALE == <<1, 2>>

AxisGrid(t, d, dmin, cs, cdl, wvl_steps, sim_steps) ==
    [grid_type |-> t, dl |-> d, dl_min |-> dmin, coords |-> cs, custom_dl |-> cdl,
     min_steps_per_wvl |-> wvl_steps, min_steps_per_sim_size |-> sim_steps]

GridOptions ==
    {AxisGrid("UniformGrid", 6, <<>>, <<>>, <<>>, 1, 1),
     AxisGrid("QuasiUniformGrid", 4, <<>>, <<>>, <<>>, 1, 1),
     AxisGrid("AutoGrid", 0, <<>>, <<>>, <<>>, 2, 1),
     AxisGrid("AutoGrid", 0, <<0>>, <<>>, <<>>, 6, 4),
     AxisGrid("AutoGrid", 0, <<2>>, <<>>, <<>>, 2, 1),
     AxisGrid("CustomGrid", 0, <<>>, <<>>, <<4, 2>>, 1, 1),
     AxisGrid("CustomGridBoundaries", 0, <<>>, <<-6, 0, 10>>, <<>>, 1, 1)}

SourceFreqs == {<<>>, <<15>>, <<30>>, <<15, 30>>, <<30, 30>>}

OverrideOptions ==
    {<<>>,
     <<[dl |-> <<<<>>, <<>>, <<2>>>>]>>,
     <<[dl |-> <<<<8>>, <<6>>, <<>>>>], [dl |-> <<<<>>, <<16>>, <<>>>>]>>}

LayerOptions ==
    {<<>>,
     <<[axis |-> 2, center |-> <<0, 0, 0>>, size |-> <<inf, inf, 8>>,
        bounds_snapping |-> <<"bounds">>, min_steps_along_axis |-> <<>>,
        bounds_refinement |-> <<>>, corner_finder |-> <<>>, corner_refinement |-> <<>>,
        corner_snapping |-> TRUE, corners |-> <<>>,
        refinement_inside_sim_only |-> TRUE]>>,
     <<[axis |-> 2, center |-> <<0, 0, 0>>, size |-> <<inf, inf, 0>>,
        bounds_snapping |-> <<"lower">>, min_steps_along_axis |-> <<>>,
        bounds_refinement |-> <<>>, corner_finder |-> <<"CornerFinderSpec">>,
        corner_snapping |-> TRUE, corners |-> <<<<3, -5>>>>,
        corner_refinement |-> <<[refinement_factor |-> <<>>, dl |-> <<>>, num_cells |-> 3]>>,
        refinement_inside_sim_only |-> TRUE],
       [axis |-> 0, center |-> <<0, 0, 0>>, size |-> <<4, inf, inf>>,
        bounds_snapping |-> <<"lower">>, min_steps_along_axis |-> <<2>>,
        bounds_refinement |-> <<>>, corner_finder |-> <<>>, corner_refinement |-> <<>>,
        corner_snapping |-> TRUE, corners |-> <<>>,
        refinement_inside_sim_only |-> TRUE]>>}

\* refractive indices of the structures, the simulation background first
StructureOptions == {<<1>>, <<1, 2>>}

\* structures[0].geometry.size
SimSize == <<48, 48, 48>>

\* auto_grid_used counting QuasiUniformGrid too
abstract_auto_grid_used(gs) ==
    \E i \in 1..3 : gs[i].grid_type \in {"AutoGrid", "QuasiUniformGrid"}

auto_grid_used(gs) == \E i \in 1..3 : gs[i].grid_type = "AutoGrid"

\* wavelength_from_sources without the test for different frequencies
wavelength_from_first_source(freqs) ==
    IF Len(freqs) = 0
    THEN [error |-> "SetupError", wavelength |-> <<>>]
    ELSE [error |-> "none", wavelength |-> <<C_0 \div freqs[1]>>]

wavelength_from_sources(freqs) ==
    IF Len(freqs) = 0
    THEN [error |-> "SetupError", wavelength |-> <<>>]
    ELSE IF \E i \in 1..Len(freqs) : freqs[i] # freqs[1]
    THEN [error |-> "SetupError", wavelength |-> <<>>]
    ELSE [error |-> "none", wavelength |-> <<C_0 \div freqs[1]>>]

get_wavelength(gs, wvl, freqs) ==
    IF wvl = <<>> /\ auto_grid_used(gs)
    THEN wavelength_from_sources(freqs)
    ELSE [error |-> "none", wavelength |-> wvl]

layer_refinement_used(layers) == Len(layers) > 0

\* the least element of S, d if S is empty
MinOf(S, d) == IF S = {} THEN d ELSE CHOOSE x \in S : \A y \in S : x <= y

\* an axis strategy together with the wavelength of the call
OnWavelength(grid, wvl) == [wavelength |-> wvl] @@ grid

\* Mesher.structure_step for a structure of refractive index n
structure_step(n, wvl, steps) == wvl \div (steps * n)

\* estimated_min_dl of UniformGrid, CustomGridBoundaries, CustomGrid,
\* QuasiUniformGrid and AutoGrid
estimated_min_dl(grid, wvl, structs, sim_size) ==
    IF grid.grid_type \in {"UniformGrid", "QuasiUniformGrid"} THEN grid.dl
    ELSE IF grid.grid_type = "CustomGridBoundaries"
    THEN MinOf({grid.coords[i + 1] - grid.coords[i] : i \in 1..(Len(grid.coords) - 1)}, inf)
    ELSE IF grid.grid_type = "CustomGrid"
    THEN MinOf({grid.custom_dl[i] : i \in 1..Len(grid.custom_dl)}, inf)
    ELSE _filtered_dl(OnWavelength(grid, wvl),
                      MinOf({structure_step(structs[i], wvl, grid.min_steps_per_wvl) :
                                 i \in 1..Len(structs)}, inf),
                      sim_size)

_min_vacuum_dl_in_autogrid(gs, wvl, sim_size) ==
    MinOf({_vacuum_dl(OnWavelength(gs[i], wvl), sim_size) :
               i \in {j \in 1..3 : gs[j].grid_type = "AutoGrid"}}, inf)

\* min_dl of GridSpec._dl_min before it is scaled
MinDl(gs, layers, overrides, wvl, structs, sim_size) ==
    MinOf(UNION {Elems(overrides[k].dl[i]) : k \in 1..Len(overrides), i \in 1..3}
          \cup {estimated_min_dl(gs[i], wvl, structs, sim_size) : i \in 1..3}
          \cup {suggested_dl_min(layers[k], _min_vacuum_dl_in_autogrid(gs, wvl, sim_size)) :
                    k \in 1..Len(layers)},
          inf)

\* GridSpec._dl_min without the scaling by MIN_STEP_BOUND_SCALE
GridSpec_dl_min_unscaled(gs, layers, overrides, wvl, structs, sim_size) ==
    MinDl(gs, layers, overrides, wvl, structs, sim_size)

\* GridSpec._dl_min
GridSpec_dl_min(gs, layers, overrides, wvl, structs, sim_size) ==
    (MinDl(gs, layers, overrides, wvl, structs, sim_size) * MIN_STEP_BOUND_SCALE[1])
        \div MIN_STEP_BOUND_SCALE[2]

\* update_dl_min
update_dl_min(gs) ==
    \E i \in 1..3 : gs[i].grid_type = "AutoGrid" /\ _undefined_dl_min(gs[i])

\* grid.updated_copy(dl_min=new_dl_min) on the AutoGrid axes with unset dl_min
UpdatedGrids(gs, new_dl_min) ==
    Array([i \in 1..3 |->
              IF gs[i].grid_type = "AutoGrid" /\ _undefined_dl_min(gs[i])
              THEN [gs[i] EXCEPT !.dl_min = <<new_dl_min>>]
              ELSE gs[i]])

\* GridSpec.snapping_points
SnappingOptions ==
    {<<>>,
     <<<<<<1>>, <<>>, <<>>>>, <<<<>>, <<-3>>, <<7>>>>>>}

\* _corners: the corners that the corner finder reports in the plane of the
\* layer, each with None along the axis of the layer
_corners(l) ==
    IF l.corner_finder = <<>> THEN <<>>
    ELSE Array([k \in 1..Len(l.corners) |->
                   Array([i \in 1..3 |->
                             IF i = l.axis + 1 THEN <<>>
                             ELSE IF i < l.axis + 1 THEN <<l.corners[k][i]>>
                             ELSE <<l.corners[k][i - 1]>>])])

generate_snapping_points(l) ==
    _snapping_points_along_axis(l) \o
        (IF l.corner_snapping THEN _corners(l) ELSE <<>>)

generate_override_structures(l, gsv) ==
    _override_structures_along_axis(l, gsv) \o
        (IF l.corner_refinement = <<>> THEN <<>>
         ELSE Array([k \in 1..Len(_corners(l)) |->
                        override_structure(l.corner_refinement[1], _corners(l)[k],
                                           gsv, l.refinement_inside_sim_only)]))

RECURSIVE layer_snapping_points(_)
layer_snapping_points(layers) ==
    IF layers = <<>> THEN <<>>
    ELSE generate_snapping_points(Head(layers)) \o layer_snapping_points(Tail(layers))

RECURSIVE layer_override_structures(_, _)
layer_override_structures(layers, gsv) ==
    IF layers = <<>> THEN <<>>
    ELSE generate_override_structures(Head(layers), gsv)
             \o layer_override_structures(Tail(layers), gsv)

internal_snapping_points(gs, layers) ==
    IF ~(auto_grid_used(gs) /\ layer_refinement_used(layers)) THEN <<>>
    ELSE layer_snapping_points(layers)

\* all_snapping_points with the snapping points of GridSpec first
all_snapping_points_external_first(gs, layers, external) ==
    external \o internal_snapping_points(gs, layers)

all_snapping_points(gs, layers, external) ==
    internal_snapping_points(gs, layers) \o external

internal_override_structures(gs, layers, wvl, sim_size) ==
    IF ~(auto_grid_used(gs) /\ layer_refinement_used(layers)) THEN <<>>
    ELSE layer_override_structures(
             layers, _min_vacuum_dl_in_autogrid(gs, wvl[1], sim_size))

\* all_override_structures with the override structures of GridSpec first
all_override_structures_external_first(gs, layers, external, wvl, sim_size) ==
    external \o internal_override_structures(gs, layers, wvl, sim_size)

all_override_structures(gs, layers, external, wvl, sim_size) ==
    internal_override_structures(gs, layers, wvl, sim_size) \o external

InitMakeGrid ==
    /\ NoMakeCoords
    /\ NoRefinement
    /\ NoMonitor
    /\ NoHeatCharge
    /\ grid_xyz \in GridOptions \X GridOptions \X GridOptions
    /\ gs_wavelength \in {<<>>, <<24>>}
    /\ gs_override_structures \in OverrideOptions
    /\ layer_refinement_specs \in LayerOptions
    /\ mg_structures \in StructureOptions
    /\ sources \in SourceFreqs
    /\ gs_snapping_points \in SnappingOptions
    /\ mg_pc = "start"
    /\ mg_error = "none"
    /\ mg_wavelength = <<>>
    /\ grids_1d = <<>>
    /\ mg_override_structures = <<>>
    /\ mg_snapping_points = <<>>

\* make_grid: wavelength = self.get_wavelength(sources)
GetWavelength ==
    /\ mg_pc = "start"
    /\ \E r \in {get_wavelength(grid_xyz, gs_wavelength, sources)} :
          /\ mg_error' = r.error
          /\ mg_wavelength' = r.wavelength
          /\ mg_pc' = IF r.error = "none" THEN "wavelength" ELSE "raised"
    /\ UNCHANGED <<grid_xyz, gs_wavelength, gs_override_structures,
                   layer_refinement_specs, mg_structures, sources, grids_1d,
                   gs_snapping_points, mg_override_structures, mg_snapping_points>>
    /\ UNCHANGED <<make_coords_vars, refinement_vars, monitor_vars, heat_charge_vars>>

\* make_grid: the override structures appended to the structures, grids_1d
\* with the internal dl_min if any AutoGrid has none, and the snapping points
\* handed to each make_coords
ApplyDlMin ==
    /\ mg_pc = "wavelength"
    /\ mg_override_structures' =
          all_override_structures(grid_xyz, layer_refinement_specs,
                                  gs_override_structures, mg_wavelength, SimSize)
    /\ mg_snapping_points' =
          all_snapping_points(grid_xyz, layer_refinement_specs, gs_snapping_points)
    /\ grids_1d' =
          IF update_dl_min(grid_xyz)
          THEN UpdatedGrids(grid_xyz,
                            GridSpec_dl_min(grid_xyz, layer_refinement_specs,
                                            gs_override_structures, mg_wavelength[1],
                                            mg_structures, SimSize))
          ELSE grid_xyz
    /\ mg_pc' = "done"
    /\ UNCHANGED <<grid_xyz, gs_wavelength, gs_override_structures,
                   layer_refinement_specs, mg_structures, sources, mg_error,
                   mg_wavelength, gs_snapping_points>>
    /\ UNCHANGED <<make_coords_vars, refinement_vars, monitor_vars, heat_charge_vars>>

NextMakeGrid ==
    \/ GetWavelength
    \/ ApplyDlMin

SpecMakeGrid == InitMakeGrid /\ [][NextMakeGrid]_vars

(* Properties of make_grid *)

AutoAxes == {i \in 1..3 : grid_xyz[i].grid_type = "AutoGrid"}

\* C11: with GridSpec.wavelength None and an AutoGrid axis, make_grid raises
\* SetupError if there is no source, raises SetupError if the sources differ
\* in central frequency, and otherwise uses C_0 over the common frequency.
C11_WavelengthFromSources ==
    (mg_pc # "start" /\ gs_wavelength = <<>> /\ AutoAxes # {}) =>
        /\ sources = <<>> => mg_pc = "raised" /\ mg_error = "SetupError"
        /\ Cardinality(Elems(sources)) > 1 => mg_pc = "raised" /\ mg_error = "SetupError"
        /\ Cardinality(Elems(sources)) = 1 =>
              /\ mg_pc # "raised"
              /\ mg_error = "none"
              /\ \A f \in Elems(sources) : mg_wavelength = <<C_0 \div f>>

\* C11 witness: two sources of frequency 30 give the wavelength 24.
C11_Witness ==
    /\ mg_pc = "done"
    /\ gs_wavelength = <<>>
    /\ AutoAxes = {2}
    /\ sources = <<30, 30>>
    /\ mg_wavelength = <<24>>

\* C11 witness of the failure: sources of frequencies 15 and 30.
C11_WitnessDiffering ==
    /\ mg_pc = "raised"
    /\ gs_wavelength = <<>>
    /\ AutoAxes # {}
    /\ sources = <<15, 30>>

QuasiOnly ==
    /\ AutoAxes = {}
    /\ \E i \in 1..3 : grid_xyz[i].grid_type = "QuasiUniformGrid"

\* C12 (amended): with GridSpec.wavelength unset and QuasiUniformGrid but no
\* AutoGrid axis, make_grid does not look at the sources: it raises nothing
\* and goes on with the wavelength None, whatever the sources are.
C12_QuasiUniformNoWavelength ==
    (mg_pc # "start" /\ gs_wavelength = <<>> /\ QuasiOnly) =>
        /\ mg_pc # "raised"
        /\ mg_error = "none"
        /\ mg_wavelength = <<>>

\* C12 as stated: with the wavelength unset and QuasiUniformGrid but no
\* AutoGrid axis, no source or sources of differing frequencies make
\* make_grid raise SetupError.
C12_Original ==
    (mg_pc # "start" /\ gs_wavelength = <<>> /\ QuasiOnly
     /\ Cardinality(Elems(sources)) # 1) =>
        mg_pc = "raised" /\ mg_error = "SetupError"

\* C12 witness: all three axes QuasiUniformGrid, no source, make_grid went on.
C12_Witness ==
    /\ mg_pc = "done"
    /\ gs_wavelength = <<>>
    /\ \A i \in 1..3 : grid_xyz[i].grid_type = "QuasiUniformGrid"
    /\ sources = <<>>
    /\ mg_wavelength = <<>>

UnsetAxes == {i \in AutoAxes : grid_xyz[i].dl_min \in {<<>>, <<0>>}}

\* the steps of which the derived dl_min is half the minimum
DlMinCandidates ==
    UNION {Elems(gs_override_structures[k].dl[i]) :
               k \in 1..Len(gs_override_structures), i \in 1..3}
    \cup {estimated_min_dl(grid_xyz[i], mg_wavelength[1], mg_structures, SimSize) :
              i \in 1..3}
    \cup {suggested_dl_min(layer_refinement_specs[k],
                           _min_vacuum_dl_in_autogrid(grid_xyz, mg_wavelength[1], SimSize)) :
              k \in 1..Len(layer_refinement_specs)}

\* C18: when an AutoGrid axis has dl_min unset (None or 0), one value, half
\* the minimum over the explicit steps of the override structures, every
\* axis's estimated minimum step and every layer's suggested dl_min, is the
\* dl_min of every AutoGrid axis with dl_min unset; every other axis, AutoGrid
\* axes with a positive dl_min included, is used as given.
C18_DerivedDlMin ==
    (mg_pc = "done" /\ UnsetAxes # {}) =>
        \A m \in {c \in DlMinCandidates : \A e \in DlMinCandidates : c <= e} :
            /\ \A i \in UnsetAxes :
                  /\ 2 * grids_1d[i].dl_min[1] = m
                  /\ grids_1d[i] = [grid_xyz[i] EXCEPT !.dl_min = grids_1d[i].dl_min]
            /\ \A i \in (1..3) \ UnsetAxes : grids_1d[i] = grid_xyz[i]

\* C18 witness: x has dl_min None, y has dl_min 0, z has dl_min 2; an override
\* structure of step 2 gives x and y the dl_min 1, and z keeps 2.
C18_Witness ==
    /\ mg_pc = "done"
    /\ grid_xyz[1].grid_type = "AutoGrid" /\ grid_xyz[1].dl_min = <<>>
    /\ grid_xyz[2].grid_type = "AutoGrid" /\ grid_xyz[2].dl_min = <<0>>
    /\ grid_xyz[3].grid_type = "AutoGrid" /\ grid_xyz[3].dl_min = <<2>>
    /\ gs_override_structures = <<[dl |-> <<<<>>, <<>>, <<2>>>>]>>
    /\ grids_1d[1].dl_min = <<1>>
    /\ grids_1d[2].dl_min = <<1>>
    /\ grids_1d[3].dl_min = <<2>>

\* C18 witness with the minimum set by a layer refinement spec.
C18_WitnessLayer ==
    /\ mg_pc = "done"
    /\ UnsetAxes # {}
    /\ layer_refinement_specs # <<>>
    /\ gs_override_structures = <<>>
    /\ \A i \in UnsetAxes :
          \A j \in 1..3 :
              2 * grids_1d[i].dl_min[1]
                  < estimated_min_dl(grid_xyz[j], mg_wavelength[1], mg_structures, SimSize)

\* make_grid leaves the strategies of the GridSpec as they are
MakeGridKeepsGridSpec == [][grid_xyz' = grid_xyz]_vars

----------------------------------------------------------------------------
(* web monitor(task_id, verbose): each action is one request to the server   *)
(* and the statements up to the next request.  The server moves the task     *)
(* from status to status while monitor polls.                                *)

TaskTypes == {"FDTD", "MODE_SOLVER", "HEAT", "other"}

ServerStatuses ==
    {"draft", "queued", "preprocess", "running", "postprocess", "visualize",
     "success", "error", "diverged", "deleted", "abort"}

\* the statuses the server can give a task next
ServerNext(st) ==
    CASE st = "draft" -> {"queued", "deleted"}
      [] st = "queued" -> {"preprocess", "running", "abort", "deleted"}
      [] st = "preprocess" -> {"running", "error", "abort", "deleted"}
      [] st = "running" -> {"postprocess", "visualize", "success", "diverged", "error",
                            "abort", "deleted"}
      [] st = "postprocess" -> {"visualize", "success", "error", "deleted"}
      [] st = "visualize" -> {"success", "deleted"}
      [] OTHER -> {}

\* perc_done of get_run_info
PercDone == {<<>>, <<50>>, <<100>>}

\* the loop of the mode and heat solvers ending on success alone
solver_success_only == {"success"}

\* the statuses that end the loop of the mode and heat solvers
solver_break_statuses == {"success", "error", "diverged", "deleted"}

break_statuses == {"success", "error", "diverged", "deleted", "draft", "abort"}

get_status(st) ==
    IF st = "visualize"
    THEN [raised |-> FALSE, status |-> "success"]
    ELSE IF st = "error"
    THEN [raised |-> TRUE, status |-> "error"]
    ELSE [raised |-> FALSE, status |-> st]

NoMakeGridOrCoords == NoMakeCoords /\ NoMakeGrid /\ NoRefinement

InitMonitor ==
    /\ NoMakeGridOrCoords
    /\ NoHeatCharge
    /\ task_type \in TaskTypes
    /\ server_status \in ServerStatuses
    /\ verbose \in BOOLEAN
    /\ mon_pc = "start"
    /\ mon_status = "unseen"
    /\ perc_done = <<>>

MonitorIdle ==
    UNCHANGED <<make_coords_vars, make_grid_vars, refinement_vars, heat_charge_vars>>

\* the server changes the status of the task while monitor is waiting
ServerStep ==
    /\ mon_pc \notin {"returned", "raised"}
    /\ server_status' \in ServerNext(server_status)
    /\ UNCHANGED <<task_type, verbose, mon_pc, mon_status, perc_done>>
    /\ MonitorIdle

\* task_info = await get_info(task_id), and the branch on taskType
GetInfo ==
    /\ mon_pc = "start"
    /\ mon_pc' = IF task_type \in {"MODE_SOLVER", "HEAT"} THEN "solver"
                 ELSE IF task_type = "FDTD" THEN "first_status"
                 ELSE "returned"
    /\ UNCHANGED <<task_type, server_status, verbose, mon_status, perc_done>>
    /\ MonitorIdle

\* mode and heat solver: status = await get_status(task_id) and the loop test
SolverPoll ==
    /\ mon_pc = "solver"
    /\ \E r \in {get_status(server_status)} :
          /\ mon_status' = r.status
          /\ mon_pc' = IF r.raised THEN "raised"
                       ELSE IF r.status \in solver_break_statuses THEN "returned"
                       ELSE "solver"
    /\ UNCHANGED <<task_type, server_status, verbose, perc_done>>
    /\ MonitorIdle

\* FDTD: status = await get_status(task_id); if status in break_statuses: return
FirstStatus ==
    /\ mon_pc = "first_status"
    /\ \E r \in {get_status(server_status)} :
          /\ mon_status' = r.status
          /\ mon_pc' = IF r.raised THEN "raised"
                       ELSE IF r.status \in break_statuses THEN "returned"
                       ELSE "preprocess"
    /\ UNCHANGED <<task_type, server_status, verbose, perc_done>>
    /\ MonitorIdle

\* monitor_preprocess: a get_status and the loop test
PreprocessPoll ==
    /\ mon_pc = "preprocess"
    /\ \E r \in {get_status(server_status)} :
          /\ mon_status' = r.status
          /\ mon_pc' = IF r.raised THEN "raised"
                       ELSE IF r.status \notin break_statuses /\ r.status # "running"
                       THEN "preprocess"
                       ELSE "running"
    /\ UNCHANGED <<task_type, server_status, verbose, perc_done>>
    /\ MonitorIdle

\* while await get_status(task_id) == "running", then the first get_run_info
RunningPoll ==
    /\ mon_pc = "running"
    /\ \E r \in {get_status(server_status)} :
          /\ mon_status' = r.status
          /\ \/ /\ r.raised
                /\ mon_pc' = "raised"
                /\ UNCHANGED perc_done
             \/ /\ ~r.raised /\ r.status = "running"
                /\ mon_pc' = "running"
                /\ UNCHANGED perc_done
             \/ /\ ~r.raised /\ r.status # "running"
                /\ perc_done' \in PercDone
                /\ mon_pc' = IF perc_done' # <<>> /\ perc_done'[1] < 100
                             THEN "progress" ELSE "post"
    /\ UNCHANGED <<task_type, server_status, verbose>>
    /\ MonitorIdle

\* the get_status of the progress loop, and the next get_run_info
ProgressPoll ==
    /\ mon_pc = "progress"
    /\ \E r \in {get_status(server_status)} :
          /\ mon_status' = r.status
          /\ \/ /\ r.raised
                /\ mon_pc' = "raised"
                /\ UNCHANGED perc_done
             \/ /\ ~r.raised /\ r.status = "running"
                /\ perc_done' \in PercDone
                /\ mon_pc' = IF perc_done' # <<>> /\ perc_done'[1] < 100
                             THEN "progress" ELSE "post"
             \/ /\ ~r.raised /\ r.status # "running"
                /\ mon_pc' = "post"
                /\ UNCHANGED perc_done
    /\ UNCHANGED <<task_type, server_status, verbose>>
    /\ MonitorIdle

\* post processing: a get_status and the test status not in break_statuses
PostPoll ==
    /\ mon_pc = "post"
    /\ \E r \in {get_status(server_status)} :
          /\ mon_status' = r.status
          /\ mon_pc' = IF r.raised THEN "raised"
                       ELSE IF r.status \notin break_statuses THEN "post"
                       ELSE "returned"
    /\ UNCHANGED <<task_type, server_status, verbose, perc_done>>
    /\ MonitorIdle

NextMonitor ==
    \/ ServerStep
    \/ GetInfo
    \/ SolverPoll
    \/ FirstStatus
    \/ PreprocessPoll
    \/ RunningPoll
    \/ ProgressPoll
    \/ PostPoll

SpecMonitor == InitMonitor /\ [][NextMonitor]_vars

(* Properties of monitor *)

\* C20 as stated: for every task type, when monitor returns, the last status
\* it observed is success, error, diverged or deleted, and the task is not in
\* draft, queued or running.
C20_Original ==
    mon_pc = "returned" =>
        /\ mon_status \in {"success", "error", "diverged", "deleted"}
        /\ server_status \notin {"draft", "queued", "running"}

\* C20 witness: monitor of an FDTD task returned with the task in draft.
C20_Witness ==
    /\ mon_pc = "returned"
    /\ task_type = "FDTD"
    /\ mon_status = "draft"
    /\ server_status = "draft"

\* monitor of a task that is neither FDTD nor mode nor heat returned without
\* a look at the status, the task running.
C20_WitnessOtherType ==
    /\ mon_pc = "returned"
    /\ task_type = "other"
    /\ mon_status = "unseen"
    /\ server_status = "running"

\* what does hold: the mode and heat branch returns only on success, diverged
\* or deleted, and the FDTD branch only on these, draft or abort
MonitorReturns ==
    mon_pc = "returned" =>
        /\ task_type \in {"MODE_SOLVER", "HEAT"} =>
              mon_status \in {"success", "diverged", "deleted"}
        /\ task_type = "FDTD" =>
              mon_status \in {"success", "diverged", "deleted", "draft", "abort"}

----------------------------------------------------------------------------
(* Further properties of make_coords *)

InsideDomain(s) == s[1] >= domain_min /\ s[Len(s)] <= domain_max

\* b is a copies of lo spaced by the first cell of s, then s, then boundaries
\* spaced by the last cell of s
ExtendedBy(b, s, a) ==
    /\ a + Len(s) <= Len(b)
    /\ SubSeq(b, a + 1, a + Len(s)) = s
    /\ \A i \in 1..a : b[i + 1] - b[i] = FirstCell(s)
    /\ \A i \in (a + Len(s))..(Len(b) - 1) : b[i + 1] - b[i] = LastCell(s)

\* C22: for CustomGrid and CustomGridBoundaries on a nonzero-size axis, when
\* the supplied boundaries lie inside the domain, the array before symmetry
\* and PML is the supplied array, unchanged, preceded by boundaries spaced by
\* its first cell and followed by boundaries spaced by its last cell; for
\* CustomGridBoundaries as many as fit in the domain; and without symmetry the
\* PML cells below have the width of the first cell and those above the width
\* of the last cell.
C22_ExtendedByEdgeCells ==
    (pc = "done" /\ IsCustom /\ size > 0) =>
        \A s \in {SuppliedArray} :
            InsideDomain(s) =>
                /\ error = "none"
                /\ \E a \in 0..Len(initial) : ExtendedBy(initial, s, a)
                /\ grid_type = "CustomGridBoundaries" =>
                      /\ initial[1] - FirstCell(s) < domain_min - Relax
                      /\ initial[Len(initial)] + LastCell(s) > domain_max + Relax
                /\ symmetry = 0 =>
                      /\ Len(bound_coords)
                            = Len(initial) + num_pml_layers[1] + num_pml_layers[2]
                      /\ SubSeq(bound_coords, num_pml_layers[1] + 1,
                                num_pml_layers[1] + Len(initial)) = initial
                      /\ \A i \in 1..num_pml_layers[1] :
                            bound_coords[i + 1] - bound_coords[i] = FirstCell(s)
                      /\ \A i \in (num_pml_layers[1] + Len(initial))..(Len(bound_coords) - 1) :
                            bound_coords[i + 1] - bound_coords[i] = LastCell(s)

\* C22 witness: coords (-4, 0, 4) on the domain from -12 to 12 give the seven
\* boundaries from -12 to 12, and one PML cell of width 4 on each side.
C22_Witness ==
    /\ Returned
    /\ grid_type = "CustomGridBoundaries"
    /\ coords = <<-4, 0, 4>>
    /\ center = 0
    /\ size = 24
    /\ symmetry = 0
    /\ num_pml_layers = <<1, 1>>
    /\ initial = <<-12, -8, -4, 0, 4, 8, 12>>
    /\ bound_coords = <<-16, -12, -8, -4, 0, 4, 8, 12, 16>>

\* C23: for CustomGrid and CustomGridBoundaries on an axis of size 0 whose
\* centre lies within the supplied array, make_coords gets from
\* _make_coords_initial two adjacent values lo < hi of the supplied array
\* with lo <= center <= hi.
C23_ZeroSizeBracket ==
    [][(pc = "start" /\ IsCustom /\ size = 0
        /\ SuppliedArray[1] <= center /\ center <= SuppliedArray[Len(SuppliedArray)])
       => /\ pc' = "done"
          /\ error' = "none"
          /\ \E k \in 1..(Len(SuppliedArray) - 1) :
                initial' = <<SuppliedArray[k], SuppliedArray[k + 1]>>
          /\ initial'[1] < initial'[2]
          /\ initial'[1] <= center
          /\ center <= initial'[2]]_vars

\* C23 witness: the centre on the last boundary of the supplied array.
C23_Witness ==
    /\ pc = "done"
    /\ grid_type = "CustomGridBoundaries"
    /\ size = 0
    /\ symmetry = 0
    /\ coords = <<-8, -4, 0>>
    /\ center = 0
    /\ initial = <<-4, 0>>

\* C23 witness: the centre on the first boundary of the supplied array.
C23_WitnessFirst ==
    /\ pc = "done"
    /\ IsCustom
    /\ size = 0
    /\ SuppliedArray[1] = center
    /\ Len(SuppliedArray) >= 3
    /\ initial = SubSeq(SuppliedArray, 1, 2)

\* the supplied array passes the overlap check
PassesOverlapCheck(s) ==
    ~(domain_max + Relax < s[1] \/ domain_min - Relax > s[Len(s)])

\* C28 as stated: for CustomGrid and CustomGridBoundaries on a nonzero-size
\* axis, when the supplied array passes the overlap check, the postprocessing
\* returns at least two boundaries or raises SetupError.
C28_Original ==
    (pc = "done" /\ IsCustom /\ size > 0) =>
        \A s \in {SuppliedArray} :
            PassesOverlapCheck(s) =>
                \/ error = "SetupError"
                \/ error = "none" /\ Len(initial) >= 2

\* C28 witness: the supplied array reaches over both ends of the domain with
\* one boundary inside, and make_coords ends with IndexError.
C28_Witness ==
    /\ pc = "done"
    /\ IsCustom
    /\ size > 0
    /\ SuppliedArray[1] < domain_min
    /\ SuppliedArray[Len(SuppliedArray)] > domain_max
    /\ Cardinality({x \in Elems(SuppliedArray) : x >= domain_min /\ x <= domain_max}) = 1
    /\ error = "IndexError"

\* the boundary of s nearest to c, the first one of two at the same distance
Nearest(s, c) ==
    CHOOSE x \in Elems(s) :
        /\ \A y \in Elems(s) : Abs(c - x) <= Abs(c - y)
        /\ \A y \in Elems(s) : Abs(c - y) = Abs(c - x) => x <= y

\* C29: for every strategy, with symmetry[axis] not 0 the array after the
\* symmetry block and before PML holds the centre, has an even number of
\* cells, is its own mirror image, and its boundaries at or above the centre
\* are those of the initial array, translated so that its boundary nearest to
\* the centre lands on the centre, that are at or above the centre.
C29_Folded ==
    (Returned /\ symmetry # 0) =>
        /\ center \in Elems(folded)
        /\ (Len(folded) - 1) % 2 = 0
        /\ StrictlyIncreasing(folded)
        /\ Mirrored(folded, center)
        /\ {x \in Elems(folded) : x >= center}
              = {x + center - Nearest(initial, center) : x \in Elems(initial)}
                \cap {x \in Int : x >= center}

\* C29 witness: no boundary of the initial array is at the centre, and the
\* initial array has boundaries below the centre that are discarded.
C29_Witness ==
    /\ Returned
    /\ symmetry # 0
    /\ center \notin Elems(initial)
    /\ Len(initial) >= 4
    /\ initial[2] < center
    /\ Len(folded) >= 5

\* the collapsed-axis step as stated: dl for QuasiUniformGrid; for AutoGrid
\* wavelength / min_steps_per_wvl clamped to dl_min and to dl_max, the largest
\* full size of the simulation over min_steps_per_sim_size
StatedCollapsedStep ==
    IF grid_type = "QuasiUniformGrid" THEN dl
    ELSE Max2(Min2(wavelength \div min_steps_per_wvl,
                   Max3(<<size, other_size[1], other_size[2]>>) \div min_steps_per_sim_size),
              IF dl_min = <<>> THEN 0 ELSE dl_min[1])

\* C24 as stated: on an AutoGrid or QuasiUniformGrid axis with one interval
\* coordinate (a domain of size 0 along the axis) the initial array is
\* [c - d/2, c + d/2] with d the stated collapsed-axis step, whose dl_max
\* comes from the full simulation size also with symmetry on other axes.
C24_Original ==
    (Returned /\ IsAuto /\ size = 0) =>
        \A d \in {StatedCollapsedStep} :
            initial = <<center - d \div 2, center + d \div 2>>

\* C24 witness: AutoGrid on a collapsed axis, symmetry on another axis whose
\* size is the largest; the cell made is narrower than the stated step.
C24_Witness ==
    /\ Returned
    /\ grid_type = "AutoGrid"
    /\ size = 0
    /\ \E i \in 1..2 : other_symmetry[i] # 0 /\ other_size[i] > other_size[3 - i]
    /\ Len(initial) = 2
    /\ initial[2] - initial[1] < StatedCollapsedStep

\* the bounds of the symmetry-reduced domain along the axis
ReducedMin == IF symmetry # 0 THEN center ELSE domain_min

ReducedMax == domain_max

OverlapsAlongAxis(st) == st.rmin <= ReducedMax /\ ReducedMin <= st.rmax

\* C25: on an AutoGrid or QuasiUniformGrid axis the structures handed to the
\* mesher after the first are, in their order, the MeshOverrideStructures
\* with drop_outside_sim False whose extent along the axis overlaps that of
\* the symmetry-reduced domain, whatever the other two axes, and the other
\* structures whose geometry intersects the symmetry-reduced domain in 3D.
C25_StructuresKept ==
    (pc = "done" /\ IsAuto) =>
        Tail(struct_list(AutoArgs))
            = SelectSeq(structures,
                        LAMBDA st :
                            IF st.type = "MeshOverrideStructure" /\ ~st.drop_outside_sim
                            THEN OverlapsAlongAxis(st)
                            ELSE OverlapsAlongAxis(st) /\ st.overlaps_other)

\* C25 witness: an override structure with drop_outside_sim False that
\* overlaps the domain along the axis only is kept and a structure that
\* overlaps it along the axis only is dropped.
C25_Witness ==
    /\ Returned
    /\ IsAuto
    /\ size = 16
    /\ symmetry = 0
    /\ structures = <<StructureD, StructureE>>
    /\ Tail(struct_list(AutoArgs)) = <<StructureE>>
    /\ -1 \in Elems(initial)

\* C25 witness: with symmetry the same override structure lies below the
\* reduced domain and is dropped.
C25_WitnessDropped ==
    /\ Returned
    /\ IsAuto
    /\ size = 16
    /\ symmetry = 1
    /\ structures = <<StructureD, StructureE>>
    /\ Tail(struct_list(AutoArgs)) = <<>>

----------------------------------------------------------------------------
(* Further properties of LayerRefinementSpec *)

HasMinSteps == layer.min_steps_along_axis # <<>> /\ layer.size[layer.axis + 1] > 0

\* the override structure that enforces thickness / min_steps_along_axis
\* across the layer
MinStepsOverride ==
    [center |-> [i \in 1..3 |-> IF i = layer.axis + 1 THEN layer.center[i] ELSE 0],
     size |-> [i \in 1..3 |-> IF i = layer.axis + 1 THEN layer.size[i] ELSE inf],
     dl |-> [i \in 1..3 |->
                IF i = layer.axis + 1
                THEN <<layer.size[i] \div layer.min_steps_along_axis[1]>>
                ELSE <<>>],
     shadow |-> FALSE,
     drop_outside_sim |-> layer.refinement_inside_sim_only]

BoundsStep == _grid_size(layer.bounds_refinement[1], grid_size_in_vacuum)

LayersInUse == AutoAxes # {} /\ Len(layer_refinement_specs) > 0

\* the leading part of a list that ends with the given external list
InternalPart(all, external) == SubSeq(all, 1, Len(all) - Len(external))

\* C27: the override structures and the snapping points that make_grid uses
\* are the internal, layer-derived ones followed by the external ones of the
\* GridSpec in their given order, and the internal part is empty unless there
\* is at least one layer refinement specification and one AutoGrid axis.
C27_InternalThenExternal ==
    mg_pc = "done" =>
        /\ Len(mg_override_structures) >= Len(gs_override_structures)
        /\ Len(mg_snapping_points) >= Len(gs_snapping_points)
        /\ \A st \in {InternalPart(mg_override_structures, gs_override_structures)} :
              /\ mg_override_structures = st \o gs_override_structures
              /\ ~LayersInUse => st = <<>>
              /\ LayersInUse =>
                    st = layer_override_structures(
                             layer_refinement_specs,
                             _min_vacuum_dl_in_autogrid(grid_xyz, mg_wavelength[1],
                                                        SimSize))
        /\ \A pts \in {InternalPart(mg_snapping_points, gs_snapping_points)} :
              /\ mg_snapping_points = pts \o gs_snapping_points
              /\ ~LayersInUse => pts = <<>>
              /\ LayersInUse => pts = layer_snapping_points(layer_refinement_specs)

\* C27 witness: two layers on an AutoGrid axis give three internal snapping
\* points and at least one internal override structure before the two
\* external ones of each list.
C27_Witness ==
    /\ mg_pc = "done"
    /\ Len(layer_refinement_specs) = 2
    /\ Len(gs_override_structures) = 2
    /\ Len(gs_snapping_points) = 2
    /\ Len(mg_snapping_points) = 5
    /\ Len(mg_override_structures) > 2
    /\ mg_snapping_points[4] = gs_snapping_points[1]

(* Termination of monitor *)

\* a step of the coroutine monitor: one request and the statements after it
MonitorStep ==
    \/ GetInfo
    \/ SolverPoll
    \/ FirstStatus
    \/ PreprocessPoll
    \/ RunningPoll
    \/ ProgressPoll
    \/ PostPoll

\* monitor is awaited to its end: every get_info, get_status and get_run_info
\* is answered and every time.sleep returns, so the coroutine keeps stepping.
\* Nothing is assumed of the server.
SpecMonitorFair == SpecMonitor /\ WF_vars(MonitorStep)

SolverTypes == {"FDTD", "MODE_SOLVER", "HEAT"}

C30_WitnessError ==
    /\ task_type = "HEAT"
    /\ verbose
    /\ server_status = "error"
    /\ mon_pc = "raised"

(* HeatChargeSimulation: the validators that read boundary_spec, monitors,   *)
(* structures and sources.  A medium is given by its charge specification,   *)
(* a boundary condition by its type and the number of voltages of its        *)
(* source, a source and a monitor by their types.                            *)

MaxBCs == 3
MaxMonitors == 2

SeqsUpTo(S, n) == UNION {{Array(f) : f \in [1..k -> S]} : k \in 0..n}

BC(cond, n) == [condition |-> cond, voltages |-> n]

\* the boundary conditions: VoltageBC with a DCVoltageSource of one voltage
\* or of an array of two, an InsulatingBC and a TemperatureBC
BoundaryConditions ==
    {BC("VoltageBC", 1), BC("VoltageBC", 2), BC("InsulatingBC", 0), BC("TemperatureBC", 0)}

MonitorTypes ==
    {"SteadyPotentialMonitor", "SteadyFreeCarrierMonitor", "SteadyCapacitanceMonitor",
     "TemperatureMonitor"}

ChargeMonitorType ==
    {"SteadyPotentialMonitor", "SteadyFreeCarrierMonitor", "SteadyCapacitanceMonitor"}

HeatBCTypes == {"TemperatureBC", "HeatFluxBC", "ConvectionBC"}

ElectricBCTypes == {"VoltageBC", "CurrentBC", "InsulatingBC"}

HeatSourceTypes == {"UniformHeatSource", "HeatSource", "HeatFromElectricSource"}

Medium(charge) == [type |-> "MultiPhysicsMedium", charge |-> charge]

\* structures: of a conductor, of two semiconductors and an oxide, of a solid
StructureMediums ==
    {<<Medium(<<"ChargeConductorMedium">>)>>,
     <<Medium(<<"ChargeInsulatorMedium">>), Medium(<<"SemiconductorMedium">>),
       Medium(<<"SemiconductorMedium">>)>>,
     <<Medium(<<>>)>>}

HeatChargeSources == {<<>>, <<"HeatSource">>}

_check_if_semiconductor_present(structs) ==
    \E i \in 1..Len(structs) :
        /\ structs[i].type = "MultiPhysicsMedium"
        /\ structs[i].charge = <<"SemiconductorMedium">>

_check_simulation_types(structs, bcs, srcs) ==
    {t \in {"CHARGE"} : _check_if_semiconductor_present(structs)}
    \cup {t \in {"HEAT"} : \E i \in 1..Len(bcs) : bcs[i].condition \in HeatBCTypes}
    \cup {t \in {"CHARGE"} :
             /\ _check_if_semiconductor_present(structs)
             /\ \E i \in 1..Len(bcs) : bcs[i].condition \in ElectricBCTypes}
    \cup {t \in {"CONDUCTION"} :
             /\ ~_check_if_semiconductor_present(structs)
             /\ \E i \in 1..Len(bcs) : bcs[i].condition \in ElectricBCTypes}
    \cup {t \in {"HEAT"} : \E i \in 1..Len(srcs) : srcs[i] \in HeatSourceTypes}

\* the VoltageBC conditions of a boundary_spec
VoltageBCs(bcs) == {i \in 1..Len(bcs) : bcs[i].condition = "VoltageBC"}

\* each validator is TRUE if it returns and FALSE if it raises SetupError

check_only_one_voltage_array_provided(bcs) ==
    Cardinality({i \in VoltageBCs(bcs) : bcs[i].voltages > 1}) <= 1

check_voltage_array_if_capacitance(bcs, mons) ==
    (\E k \in 1..Len(mons) : mons[k] = "SteadyCapacitanceMonitor") =>
        \E i \in VoltageBCs(bcs) : bcs[i].voltages > 1

\* check_charge_simulation asking for one VoltageBC only
check_charge_simulation_one_voltage(structs, bcs, srcs, mons) ==
    "CHARGE" \in _check_simulation_types(structs, bcs, srcs) =>
        /\ ~(Cardinality(VoltageBCs(bcs)) < 1)
        /\ \E k \in 1..Len(mons) : mons[k] \in ChargeMonitorType

check_charge_simulation(structs, bcs, srcs, mons) ==
    "CHARGE" \in _check_simulation_types(structs, bcs, srcs) =>
        /\ ~(Cardinality(VoltageBCs(bcs)) < 2)
        /\ \E k \in 1..Len(mons) : mons[k] \in ChargeMonitorType

not_all_neumann(structs, bcs, srcs) ==
    \A t \in _check_simulation_types(structs, bcs, srcs) :
        /\ t = "HEAT" =>
              /\ \E i \in 1..Len(bcs) : bcs[i].condition \in HeatBCTypes
              /\ \E i \in 1..Len(bcs) :
                    bcs[i].condition \in HeatBCTypes \ {"HeatFluxBC"}
        /\ t = "CONDUCTION" =>
              /\ \E i \in 1..Len(bcs) : bcs[i].condition \in ElectricBCTypes
              /\ \E i \in 1..Len(bcs) :
                    bcs[i].condition \in ElectricBCTypes \ {"CurrentBC", "InsulatingBC"}

\* the validators of the fields, then the root validators, which are skipped
\* if a validator of a field has failed
HeatChargeValid(structs, bcs, srcs, mons) ==
    /\ check_only_one_voltage_array_provided(bcs)
    /\ check_voltage_array_if_capacitance(bcs, mons)
    /\ check_charge_simulation(structs, bcs, srcs, mons)
    /\ not_all_neumann(structs, bcs, srcs)

\* a tuple without its i-th element
Without(seq, i) == SubSeq(seq, 1, i - 1) \o SubSeq(seq, i + 1, Len(seq))

InitHeatCharge ==
    /\ NoMakeGridOrCoords
    /\ NoMonitor
    /\ hc_structures \in StructureMediums
    /\ hc_boundary_spec \in SeqsUpTo(BoundaryConditions, MaxBCs)
    /\ hc_sources \in HeatChargeSources
    /\ hc_monitors \in SeqsUpTo(MonitorTypes, MaxMonitors)
    /\ hc_call = "none"
    /\ hc_pc = "new"
    /\ hc_error = "none"

HeatChargeIdle ==
    UNCHANGED <<make_coords_vars, make_grid_vars, refinement_vars, monitor_vars>>

\* the validation of the fields in hc_structures', hc_boundary_spec',
\* hc_sources' and hc_monitors'
Validate ==
    /\ hc_pc' = IF HeatChargeValid(hc_structures', hc_boundary_spec', hc_sources',
                                   hc_monitors')
                THEN "accepted" ELSE "rejected"
    /\ hc_error' = IF hc_pc' = "accepted" THEN "none" ELSE "ValidationError"

\* HeatChargeSimulation(structures=..., boundary_spec=..., sources=..., monitors=...)
Construct ==
    /\ hc_pc = "new"
    /\ hc_call' = "__init__"
    /\ UNCHANGED <<hc_structures, hc_boundary_spec, hc_sources, hc_monitors>>
    /\ Validate
    /\ HeatChargeIdle

\* sim.updated_copy(monitors=...): the monitors without one, or none
UpdatedCopyMonitors ==
    /\ hc_pc = "accepted"
    /\ hc_monitors' \in {<<>>} \cup {Without(hc_monitors, i) : i \in 1..Len(hc_monitors)}
    /\ hc_call' = "updated_copy"
    /\ UNCHANGED <<hc_structures, hc_boundary_spec, hc_sources>>
    /\ Validate
    /\ HeatChargeIdle

\* sim.updated_copy(boundary_spec=...): the conditions without one, or none
UpdatedCopyBoundarySpec ==
    /\ hc_pc = "accepted"
    /\ hc_boundary_spec' \in
          {<<>>} \cup {Without(hc_boundary_spec, i) : i \in 1..Len(hc_boundary_spec)}
    /\ hc_call' = "updated_copy"
    /\ UNCHANGED <<hc_structures, hc_sources, hc_monitors>>
    /\ Validate
    /\ HeatChargeIdle

\* sim.updated_copy(structures=...)
UpdatedCopyStructures ==
    /\ hc_pc = "accepted"
    /\ hc_structures' \in StructureMediums
    /\ hc_call' = "updated_copy"
    /\ UNCHANGED <<hc_boundary_spec, hc_sources, hc_monitors>>
    /\ Validate
    /\ HeatChargeIdle

NextHeatCharge ==
    \/ Construct
    \/ UpdatedCopyMonitors
    \/ UpdatedCopyBoundarySpec
    \/ UpdatedCopyStructures

SpecHeatCharge == InitHeatCharge /\ [][NextHeatCharge]_vars

(* Properties of HeatChargeSimulation *)

\* the simulation holds a semiconductor, so that its analysis types include CHARGE
ChargeInferred ==
    \E i \in 1..Len(hc_structures) : hc_structures[i].charge = <<"SemiconductorMedium">>

\* at least two VoltageBC conditions and one potential, free-carrier or
\* capacitance monitor
ChargeRequirements ==
    /\ \E i, j \in 1..Len(hc_boundary_spec) :
          /\ i # j
          /\ hc_boundary_spec[i].condition = "VoltageBC"
          /\ hc_boundary_spec[j].condition = "VoltageBC"
    /\ \E k \in 1..Len(hc_monitors) :
          hc_monitors[k] \in {"SteadyPotentialMonitor", "SteadyFreeCarrierMonitor",
                              "SteadyCapacitanceMonitor"}

\* C21: a HeatChargeSimulation whose analysis types include CHARGE is accepted
\* only with at least two VoltageBC conditions and at least one potential,
\* free-carrier or capacitance monitor; without them the construction, also
\* through updated_copy, ends in a validation error.
C21_ChargeRequirements ==
    (hc_pc \in {"accepted", "rejected"} /\ ChargeInferred) =>
        /\ hc_pc = "accepted" => ChargeRequirements
        /\ ~ChargeRequirements => hc_pc = "rejected" /\ hc_error = "ValidationError"

\* C21 witness: updated_copy(monitors=[]) of an accepted charge simulation
\* with two VoltageBC conditions is rejected.
C21_Witness ==
    /\ ChargeInferred
    /\ Len(hc_boundary_spec) = 2
    /\ \A i \in 1..2 : hc_boundary_spec[i].condition = "VoltageBC"
    /\ hc_monitors = <<>>
    /\ hc_call = "updated_copy"
    /\ hc_pc = "rejected"
    /\ hc_error = "ValidationError"

\* C21 witness: a charge simulation with two VoltageBC conditions and a
\* potential monitor is accepted.
C21_WitnessAccepted ==
    /\ ChargeInferred
    /\ Cardinality(VoltageBCs(hc_boundary_spec)) = 2
    /\ hc_monitors = <<"SteadyPotentialMonitor">>
    /\ hc_call = "__init__"
    /\ hc_pc = "accepted"

====
